---- MODULE Spec2Model ----
(***************************************************************************)
(* Model of the context-resolution engine of mongodb-lsp: the Visitor      *)
(* class (src/src/diagnosticCodes.ts, lines 104-1018).                      *)
(*                                                                         *)
(* Text is a sequence of one-character strings.  The Babel parser that     *)
(* Visitor.parseAST calls is modelled by a tokenizer and a recursive       *)
(* descent parser for the subset of JavaScript the documents below use:    *)
(* identifiers, string / template / numeric literals, member access        *)
(* (a.b, a[b]), calls, tagged templates, object and array literals,        *)
(* expression statements with automatic semicolon insertion.  Input the    *)
(* subset does not cover is reported as "unsupported", never as a parse    *)
(* error, and the documents are chosen so that it is never reached.        *)
(*                                                                         *)
(* The second part models the two server entry points around the Visitor:  *)
(* bin/server.js (src/src/config.ts, lines 73-542) and src/server.ts       *)
(* (src/src/index.ts, lines 41-242).  The class MongoDBService they call   *)
(* is known by its calls only: the model keeps what it was given.          *)
(***************************************************************************)
EXTENDS Integers, Sequences, FiniteSets, TLC

\* The Visitor: its two fields, the call in progress (or the last one), and
\* held, the object the last parseASTForCompletion returned to its caller:
\* result is what it held when it was returned, shared says that _state
\* still refers to that same object.
VARIABLES _state, _selection, call, held

\* The server process: pc is how far it is ("off" while only a Visitor
\* runs), process its command line, environment and files, config the
\* variable config of bin/server.js, connectionCount the counter of
\* startWebSocketServer, clients the closures of startLanguageServer (one
\* per connection, in the order of the connections), and event the last
\* message handled, with the reply, the calls made on a MongoDBService and
\* the notifications sent while handling it.
VARIABLES pc, process, config, connectionCount, clients, event

visitorVars == <<_state, _selection, call, held>>

serverVars == <<pc, process, config, connectionCount, clients, event>>

vars == <<_state, _selection, call, held,
          pc, process, config, connectionCount, clients, event>>

----------------------------------------------------------------------------
(* Characters and strings *)

Lower == {"a","b","c","d","e","f","g","h","i","j","k","l","m",
          "n","o","p","q","r","s","t","u","v","w","x","y","z"}
Upper == {"A","B","C","D","E","F","G","H","I","J","K","L","M",
          "N","O","P","Q","R","S","T","U","V","W","X","Y","Z"}
Digit == {"0","1","2","3","4","5","6","7","8","9"}
IdStart == Lower \cup Upper \cup {"$", "_"}
IdPart == IdStart \cup Digit
Punct == {".", "(", ")", "[", "]", "{", "}", ":", ",", ";"}
Quote == {"'", "\""}
\* The backquote character (a TLA+ string cannot hold it).
BACKTICK == "BACKTICK"

\* What JavaScript's string conversion gives for the value undefined.
S_undefined == <<"u","n","d","e","f","i","n","e","d">>

PLACEHOLDER ==
    <<"T","R","I","G","G","E","R","_","C","H","A","R","A","C","T","E","R">>

\* String.prototype.includes
includes(s, sub) ==
    \E i \in 1..(Len(s) - Len(sub) + 1) : SubSeq(s, i, i + Len(sub) - 1) = sub

\* String.prototype.startsWith
startsWith(s, sub) ==
    Len(s) >= Len(sub) /\ SubSeq(s, 1, Len(sub)) = sub

\* String.prototype.slice(from, to) for 0 <= from, 0 <= to (clamped to the length)
slice(s, from, to) ==
    LET f == IF from > Len(s) THEN Len(s) ELSE from
        t == IF to > Len(s) THEN Len(s) ELSE to
    IN  IF t <= f THEN <<>> ELSE SubSeq(s, f + 1, t)

RECURSIVE split(_)
\* String.prototype.split('\n')
split(s) ==
    LET nls == {i \in 1..Len(s) : s[i] = "\n"} IN
    IF nls = {} THEN <<s>>
    ELSE LET i == CHOOSE k \in nls : \A m \in nls : k <= m
         IN  <<SubSeq(s, 1, i - 1)>> \o split(SubSeq(s, i + 1, Len(s)))

RECURSIVE join(_)
\* Array.prototype.join('\n')
join(lines) ==
    IF Len(lines) = 0 THEN <<>>
    ELSE IF Len(lines) = 1 THEN lines[1]
    ELSE lines[1] \o <<"\n">> \o join(Tail(lines))

----------------------------------------------------------------------------
(* Visitor._handleTriggerCharacter *)

\* textLines[line] = value, on a JavaScript array: an index past the end
\* extends the array, and join() renders the holes as empty strings.
ArraySet(lines, line, value) ==
    [k \in 1..(IF line + 1 > Len(lines) THEN line + 1 ELSE Len(lines)) |->
        IF k = line + 1 THEN value
        ELSE IF k <= Len(lines) THEN lines[k] ELSE <<>>]

\* A variant of _handleTriggerCharacter: the postfix is taken from one
\* character after the cursor.
_handleTriggerCharacter_skipsOne(textFromEditor, position) ==
    LET textLines == split(textFromEditor)
        defined == position.line + 1 <= Len(textLines)
        cur == textLines[position.line + 1]
        prefix == IF position.character = 0 THEN <<>>
                  ELSE slice(cur, 0, position.character)
        postfix == IF position.character = 0
                   THEN (IF defined THEN cur ELSE S_undefined)
                   ELSE slice(cur, position.character + 1, Len(cur))
    IN  IF position.character # 0 /\ ~defined
        THEN [threw |-> TRUE]
        ELSE [threw |-> FALSE,
              text |-> join(ArraySet(textLines, position.line,
                                     prefix \o PLACEHOLDER \o postfix))]

\* The result is [threw |-> TRUE] when textLines[position.line] is undefined
\* and .slice is called on it (a TypeError), else the text with the sentinel.
_handleTriggerCharacter(textFromEditor, position) ==
    LET textLines == split(textFromEditor)
        defined == position.line + 1 <= Len(textLines)
        cur == textLines[position.line + 1]
        prefix == IF position.character = 0 THEN <<>>
                  ELSE slice(cur, 0, position.character)
        postfix == IF position.character = 0
                   THEN (IF defined THEN cur ELSE S_undefined)
                   ELSE slice(cur, position.character, Len(cur))
    IN  IF position.character # 0 /\ ~defined
        THEN [threw |-> TRUE]
        ELSE [threw |-> FALSE,
              text |-> join(ArraySet(textLines, position.line,
                                     prefix \o PLACEHOLDER \o postfix))]

----------------------------------------------------------------------------
(* The tokenizer of the parser (parser.parse, @babel/parser) *)

\* The parser's position record for a 0-based offset: line is 1-based.
LocOf(text, off) ==
    LET nls == {i \in 1..off : text[i] = "\n"}
        last == IF nls = {} THEN 0 ELSE CHOOSE k \in nls : \A m \in nls : m <= k
    IN  [line |-> Cardinality(nls) + 1, column |-> off - last]

\* A token of kind k and content v spanning the 0-based offsets [s, e);
\* nl: a line break precedes it.
Token(text, k, v, s, e, nl) ==
    [k |-> k, v |-> v, nl |-> nl, start |-> s, end |-> e,
     loc |-> [start |-> LocOf(text, s), end |-> LocOf(text, e)]]

SyntaxError == [ok |-> FALSE, why |-> "syntax"]
Unsupported == [ok |-> FALSE, why |-> "unsupported"]

\* the first index >= i whose character is not in set (Len + 1 if none)
ScanWhile(text, i, set) ==
    LET stop == {j \in i..Len(text) :
                    text[j] \notin set /\ \A m \in i..(j - 1) : text[m] \in set}
    IN  IF stop = {} THEN Len(text) + 1 ELSE CHOOSE j \in stop : TRUE

\* the first index >= i whose character is in set (Len + 1 if none)
ScanUntil(text, i, set) ==
    LET stop == {j \in i..Len(text) :
                    text[j] \in set /\ \A m \in i..(j - 1) : text[m] \notin set}
    IN  IF stop = {} THEN Len(text) + 1 ELSE CHOOSE j \in stop : TRUE

\* the last index <= i whose character is not in set (0 if none)
ScanBack(text, i, set) ==
    LET stop == {j \in 1..i :
                    text[j] \notin set /\ \A m \in (j + 1)..i : text[m] \in set}
    IN  IF stop = {} THEN 0 ELSE CHOOSE j \in stop : TRUE

Blank == {" ", "\n"}

RECURSIVE StringSpans(_, _)
\* The string and template literals from index i on: [from, to] are the
\* indexes of the quotes.  A literal that is not closed (a string, also by
\* the end of its line) is the last one, closed |-> FALSE.
StringSpans(text, i) ==
    LET j == ScanUntil(text, i, Quote \cup {BACKTICK}) IN
    IF j > Len(text) THEN <<>>
    ELSE LET c == text[j]
             k == ScanUntil(text, j + 1, IF c = BACKTICK THEN {c} ELSE {c, "\n"})
         IN  IF k > Len(text) \/ text[k] # c
             THEN <<[from |-> j, to |-> Len(text), closed |-> FALSE]>>
             ELSE <<[from |-> j, to |-> k, closed |-> TRUE]>>
                    \o StringSpans(text, k + 1)

\* The token that starts at index i, as a sequence of one token or failure;
\* the empty sequence if no token starts at i.
TokenAt(text, spans, i) ==
    LET c == text[i]
        b == ScanBack(text, i - 1, Blank)
        nl == \E k \in (b + 1)..(i - 1) : text[k] = "\n"
    IN
    IF \E n \in DOMAIN spans : spans[n].from < i /\ i <= spans[n].to THEN <<>>
    ELSE IF \E n \in DOMAIN spans : spans[n].from = i THEN
        LET sp == spans[CHOOSE n \in DOMAIN spans : spans[n].from = i]
            raw == SubSeq(text, i + 1, sp.to - 1)
        IN  IF ~sp.closed
            THEN <<SyntaxError>>   \* "Unterminated string constant / template"
            ELSE IF "\\" \in {raw[k] : k \in DOMAIN raw} THEN <<Unsupported>>
            ELSE IF c = BACKTICK /\ "$" \in {raw[k] : k \in DOMAIN raw}
            THEN <<Unsupported>>   \* substitutions
            ELSE <<Token(text, IF c = BACKTICK THEN "tpl" ELSE "str", raw,
                         i - 1, sp.to, nl)>>
    ELSE IF c \in Blank THEN <<>>
    ELSE IF c \in IdPart THEN
        IF i > 1 /\ text[i - 1] \in IdPart THEN <<>>
        ELSE IF c \in Digit THEN
            LET j == ScanWhile(text, i, Digit) IN
            IF j <= Len(text) /\ text[j] \in IdStart
            THEN <<SyntaxError>>   \* "Identifier directly after number"
            ELSE IF j <= Len(text) /\ text[j] = "." THEN <<Unsupported>>
            ELSE <<Token(text, "num", SubSeq(text, i, j - 1), i - 1, j - 1, nl)>>
        ELSE
            LET j == ScanWhile(text, i, IdPart)
            IN  <<Token(text, "id", SubSeq(text, i, j - 1), i - 1, j - 1, nl)>>
    ELSE IF c \in Punct THEN <<Token(text, "p", <<c>>, i - 1, i, nl)>>
    ELSE <<Unsupported>>

RECURSIVE TokensIn(_, _, _, _)
\* The tokens that start at the indexes lo..hi, in order.
TokensIn(text, spans, lo, hi) ==
    IF lo > hi THEN <<>>
    ELSE IF lo = hi THEN TokenAt(text, spans, lo)
    ELSE LET mid == (lo + hi) \div 2
         IN  TokensIn(text, spans, lo, mid) \o TokensIn(text, spans, mid + 1, hi)

\* The tokens of the text, ending with the end-of-file token, or a failure.
Tokenize(text) ==
    LET toks == TokensIn(text, StringSpans(text, 1), 1, Len(text))
        b == ScanBack(text, Len(text), Blank)
        eof == Token(text, "eof", <<>>, Len(text), Len(text),
                     \E k \in (b + 1)..Len(text) : text[k] = "\n")
    IN  IF \E k \in DOMAIN toks : toks[k] = Unsupported THEN Unsupported
        ELSE IF \E k \in DOMAIN toks : toks[k] = SyntaxError THEN SyntaxError
        ELSE [ok |-> TRUE, toks |-> Append(toks, eof)]

----------------
(* AST nodes (@babel/types).  Every node has start, end (0-based offsets)  *)
(* and loc (1-based line, 0-based column), as the parser sets them.        *)

\* The span from the start of a to the end of b (tokens or nodes).
Span(a, b) ==
    [start |-> a.start, end |-> b.end,
     loc |-> [start |-> a.loc.start, end |-> b.loc.end]]

Node(type, span, fields) ==
    [type |-> type, start |-> span.start, end |-> span.end, loc |-> span.loc]
        @@ fields

\* A hole of an array literal (null in elements).
NullNode == [type |-> "null"]

Identifier(t) == Node("Identifier", t, [name |-> t.v])
StringLiteral(t) == Node("StringLiteral", t, [value |-> t.v])
NumericLiteral(t) == Node("NumericLiteral", t, [value |-> t.v])
TemplateElement(t) == Node("TemplateElement", t, [value |-> [raw |-> t.v]])
TemplateLiteral(t) ==
    Node("TemplateLiteral", t,
         [quasis |-> <<TemplateElement(t)>>, expressions |-> <<>>])
MemberExpression(object, property, computed, last) ==
    Node("MemberExpression", Span(object, last),
         [object |-> object, property |-> property, computed |-> computed])
CallExpression(callee, arguments, last) ==
    Node("CallExpression", Span(callee, last),
         [callee |-> callee, arguments |-> arguments])
TaggedTemplateExpression(tag, t) ==
    Node("TaggedTemplateExpression", Span(tag, t),
         [tag |-> tag, quasi |-> TemplateLiteral(t)])
ObjectProperty(key, value, computed, shorthand, first) ==
    Node("ObjectProperty", Span(first, value),
         [key |-> key, value |-> value, computed |-> computed,
          shorthand |-> shorthand])
ObjectExpression(properties, first, last) ==
    Node("ObjectExpression", Span(first, last), [properties |-> properties])
ArrayExpression(elements, first, last) ==
    Node("ArrayExpression", Span(first, last), [elements |-> elements])
SequenceExpression(expressions) ==
    Node("SequenceExpression", Span(expressions[1], expressions[Len(expressions)]),
         [expressions |-> expressions])
ExpressionStatement(expression, last) ==
    Node("ExpressionStatement", Span(expression, last), [expression |-> expression])
EmptyStatement(t) == Node("EmptyStatement", t, <<>>)
BlockStatement(body, first, last) ==
    Node("BlockStatement", Span(first, last), [body |-> body, directives |-> <<>>])
IfStatement(test, consequent, alternate, first, last) ==
    Node("IfStatement", Span(first, last),
         [test |-> test, consequent |-> consequent, alternate |-> alternate])
Directive(stmt) ==
    Node("Directive", stmt,
         [value |-> Node("DirectiveLiteral", stmt.expression,
                         [value |-> stmt.expression.value])])
\* The program spans the whole text, from offset 0 to the end-of-file token.
Program(directives, body, eof) ==
    Node("Program",
         Span([start |-> 0, loc |-> [start |-> [line |-> 1, column |-> 0]]], eof),
         [directives |-> directives, body |-> body])
File(program) == Node("File", program, [program |-> program])

----------------
(* The parser (parser.parse with sourceType 'module') *)

IsP(toks, i, c) == toks[i].k = "p" /\ toks[i].v = <<c>>

Parsed(node, next) == [ok |-> TRUE, node |-> node, next |-> next]

\* Parsing goes on with Go(r) after the step r, unless r failed (threw).
Then(r, Go(_)) == IF r.ok THEN Go(r) ELSE r

RECURSIVE ParseExpr(_, _), ParsePostfix(_, _, _), ParseList(_, _, _, _, _),
          ParseProps(_, _, _), ParseMore(_, _, _)

\* The expressions that follow the comma of a sequence expression.
ParseMore(toks, i, acc) ==
    Then(ParseExpr(toks, i), LAMBDA r :
        IF IsP(toks, r.next, ",")
        THEN ParseMore(toks, r.next + 1, Append(acc, r.node))
        ELSE [ok |-> TRUE, items |-> Append(acc, r.node), next |-> r.next])

\* An expression starting at token i: one expression, or a sequence a, b.
ParseExpression(toks, i) ==
    Then(ParseExpr(toks, i), LAMBDA r :
        IF IsP(toks, r.next, ",")
        THEN Then(ParseMore(toks, r.next + 1, <<r.node>>), LAMBDA m :
                Parsed(SequenceExpression(m.items), m.next))
        ELSE r)

\* An expression without a top-level comma, starting at token i.
ParseExpr(toks, i) ==
    LET t == toks[i] IN
    IF t.k = "id" THEN ParsePostfix(toks, Identifier(t), i + 1)
    ELSE IF t.k = "str" THEN ParsePostfix(toks, StringLiteral(t), i + 1)
    ELSE IF t.k = "num" THEN
        IF Len(t.v) > 1 /\ t.v[1] = "0"
        THEN SyntaxError   \* legacy octal literal in strict mode
        ELSE ParsePostfix(toks, NumericLiteral(t), i + 1)
    ELSE IF t.k = "tpl" THEN ParsePostfix(toks, TemplateLiteral(t), i + 1)
    ELSE IF IsP(toks, i, "{") THEN
        Then(ParseProps(toks, i + 1, <<>>), LAMBDA r :
            ParsePostfix(toks, ObjectExpression(r.items, t, r.last), r.next))
    ELSE IF IsP(toks, i, "[") THEN
        Then(ParseList(toks, i + 1, "]", <<>>, TRUE), LAMBDA r :
            ParsePostfix(toks, ArrayExpression(r.items, t, r.last), r.next))
    ELSE IF IsP(toks, i, "(") THEN Unsupported   \* parenthesized / arrow function
    ELSE SyntaxError

\* The member accesses, calls and template tags that follow base.
ParsePostfix(toks, base, i) ==
    LET t == toks[i] IN
    IF IsP(toks, i, ".") THEN
        IF toks[i + 1].k = "id"
        THEN ParsePostfix(toks,
                MemberExpression(base, Identifier(toks[i + 1]), FALSE, toks[i + 1]),
                i + 2)
        ELSE IF IsP(toks, i + 1, ".") THEN Unsupported
        ELSE SyntaxError
    ELSE IF IsP(toks, i, "[") THEN
        Then(ParseExpression(toks, i + 1), LAMBDA r :
            IF IsP(toks, r.next, "]")
            THEN ParsePostfix(toks,
                    MemberExpression(base, r.node, TRUE, toks[r.next]), r.next + 1)
            ELSE SyntaxError)
    ELSE IF IsP(toks, i, "(") THEN
        Then(ParseList(toks, i + 1, ")", <<>>, FALSE), LAMBDA r :
            ParsePostfix(toks, CallExpression(base, r.items, r.last), r.next))
    ELSE IF t.k = "tpl" THEN
        ParsePostfix(toks, TaggedTemplateExpression(base, t), i + 1)
    ELSE Parsed(base, i)

\* Comma-separated expressions up to the closing token; holes only in arrays.
ParseList(toks, i, close, acc, holes) ==
    IF IsP(toks, i, close)
    THEN [ok |-> TRUE, items |-> acc, next |-> i + 1, last |-> toks[i]]
    ELSE IF IsP(toks, i, ",") THEN
        IF holes THEN ParseList(toks, i + 1, close, Append(acc, NullNode), holes)
        ELSE SyntaxError
    ELSE IF IsP(toks, i, ".") THEN Unsupported   \* spread element
    ELSE
        Then(ParseExpr(toks, i), LAMBDA r :
            IF IsP(toks, r.next, ",")
            THEN ParseList(toks, r.next + 1, close, Append(acc, r.node), holes)
            ELSE IF IsP(toks, r.next, close)
            THEN ParseList(toks, r.next, close, Append(acc, r.node), holes)
            ELSE SyntaxError)

S_get == <<"g","e","t">>
S_set == <<"s","e","t">>
S_async == <<"a","s","y","n","c">>

\* The key of an object property at token i: a computed key [expr], an
\* identifier, a string or a number; next is the token after the key.
ParseKey(toks, i) ==
    LET t == toks[i] IN
    IF IsP(toks, i, "[") THEN
        Then(ParseExpr(toks, i + 1), LAMBDA r :
            IF IsP(toks, r.next, "]") THEN Parsed(r.node, r.next + 1)
            ELSE SyntaxError)
    ELSE IF t.k = "id" THEN Parsed(Identifier(t), i + 1)
    ELSE IF t.k = "str" THEN Parsed(StringLiteral(t), i + 1)
    ELSE IF t.k = "num" THEN Parsed(NumericLiteral(t), i + 1)
    ELSE SyntaxError

\* The object property that starts at token i, after its key kr: key: value
\* or the shorthand key.
ParseProp(toks, i, kr) ==
    LET t == toks[i]
        computed == IsP(toks, i, "[")
        j == kr.next
    IN
    IF IsP(toks, j, ":") THEN
        Then(ParseExpr(toks, j + 1), LAMBDA v :
            Parsed(ObjectProperty(kr.node, v.node, computed, FALSE, t), v.next))
    ELSE IF IsP(toks, j, "(") THEN Unsupported   \* object method
    ELSE IF ~computed /\ t.k = "id" /\ t.v \in {S_get, S_set, S_async}
            /\ ~(IsP(toks, j, ",") \/ IsP(toks, j, "}"))
    THEN Unsupported                             \* accessor / async method
    ELSE IF ~computed /\ t.k = "id" /\ (IsP(toks, j, ",") \/ IsP(toks, j, "}"))
    THEN Parsed(ObjectProperty(kr.node, kr.node, FALSE, TRUE, t), j)
    ELSE SyntaxError

\* The properties of an object literal, up to the closing brace.
ParseProps(toks, i, acc) ==
    IF IsP(toks, i, "}")
    THEN [ok |-> TRUE, items |-> acc, next |-> i + 1, last |-> toks[i]]
    ELSE IF IsP(toks, i, ".") THEN Unsupported   \* spread element
    ELSE
        Then(ParseKey(toks, i), LAMBDA kr :
        Then(ParseProp(toks, i, kr), LAMBDA r :
            IF IsP(toks, r.next, ",")
            THEN ParseProps(toks, r.next + 1, Append(acc, r.node))
            ELSE IF IsP(toks, r.next, "}")
            THEN ParseProps(toks, r.next, Append(acc, r.node))
            ELSE SyntaxError))

\* The statement that ends after the expression r: with a semicolon, or
\* by automatic semicolon insertion.
EndStatement(toks, r) ==
    LET n == toks[r.next] IN
    IF IsP(toks, r.next, ";")
    THEN Parsed(ExpressionStatement(r.node, n), r.next + 1)
    ELSE IF IsP(toks, r.next, ":")
    THEN Unsupported                             \* labeled statement
    ELSE IF n.k = "eof" \/ n.nl \/ IsP(toks, r.next, "}")
    THEN Parsed(ExpressionStatement(r.node, r.node), r.next)
    ELSE SyntaxError                             \* "Missing semicolon"

S_if == <<"i", "f">>
S_else == <<"e", "l", "s", "e">>

IsKeyword(toks, i, word) == toks[i].k = "id" /\ toks[i].v = word

RECURSIVE ParseStatement(_, _), ParseBlock(_, _, _, _)

\* The if statement whose test and consequent c are parsed: with its else
\* branch when the next token is else.
ParseElse(toks, first, test, c) ==
    IF IsKeyword(toks, c.next, S_else)
    THEN Then(ParseStatement(toks, c.next + 1), LAMBDA a :
            Parsed(IfStatement(test, c.node, a.node, first, a.node), a.next))
    ELSE Parsed(IfStatement(test, c.node, NullNode, first, c.node), c.next)

\* The if statement that starts at token i: if (test) consequent.
ParseIf(toks, i) ==
    IF ~IsP(toks, i + 1, "(") THEN SyntaxError
    ELSE Then(ParseExpression(toks, i + 2), LAMBDA t :
            IF ~IsP(toks, t.next, ")") THEN SyntaxError
            ELSE Then(ParseStatement(toks, t.next + 1), LAMBDA c :
                    ParseElse(toks, toks[i], t.node, c)))

\* The statements of the block whose opening brace is first, from token i
\* to its closing brace.
ParseBlock(toks, i, body, first) ==
    IF IsP(toks, i, "}") THEN Parsed(BlockStatement(body, first, toks[i]), i + 1)
    ELSE IF toks[i].k = "eof" THEN SyntaxError
    ELSE Then(ParseStatement(toks, i), LAMBDA r :
            ParseBlock(toks, r.next, Append(body, r.node), first))

\* One statement: an empty statement, a block, an if statement or an
\* expression statement.
ParseStatement(toks, i) ==
    IF IsP(toks, i, ";") THEN Parsed(EmptyStatement(toks[i]), i + 1)
    ELSE IF IsP(toks, i, "{") THEN ParseBlock(toks, i + 1, <<>>, toks[i])
    ELSE IF IsKeyword(toks, i, S_if) THEN ParseIf(toks, i)
    ELSE IF IsKeyword(toks, i, S_else) THEN SyntaxError
    ELSE Then(ParseExpression(toks, i), LAMBDA r : EndStatement(toks, r))

RECURSIVE ParseStatements(_, _, _, _, _)
\* The program body; the leading string-literal statements are directives.
ParseStatements(toks, i, directives, body, prologue) ==
    IF toks[i].k = "eof"
    THEN [ok |-> TRUE, ast |-> File(Program(directives, body, toks[i]))]
    ELSE
        Then(ParseStatement(toks, i), LAMBDA r :
            IF prologue /\ r.node.type = "ExpressionStatement"
                    /\ r.node.expression.type = "StringLiteral"
            THEN ParseStatements(toks, r.next,
                    Append(directives, Directive(r.node)), body, TRUE)
            ELSE ParseStatements(toks, r.next, directives, Append(body, r.node),
                    FALSE))

\* parser.parse: [ok |-> TRUE, ast |-> File] or a failure (it throws).
Parse(text) ==
    Then(Tokenize(text), LAMBDA l : ParseStatements(l.toks, 1, <<>>, <<>>, TRUE))

----------------------------------------------------------------------------
(* traverse (@babel/traverse): the nodes below a node, in visiting order *)

\* The child nodes of n in the order of the traverser's VISITOR_KEYS.
Children(n) ==
    CASE n.type = "File" -> <<n.program>>
      [] n.type = "Program" -> n.directives \o n.body
      [] n.type = "Directive" -> <<n.value>>
      [] n.type = "ExpressionStatement" -> <<n.expression>>
      [] n.type = "BlockStatement" -> n.body
      [] n.type = "IfStatement" ->
            <<n.test, n.consequent>>
                \o (IF n.alternate = NullNode THEN <<>> ELSE <<n.alternate>>)
      [] n.type = "SequenceExpression" -> n.expressions
      [] n.type = "CallExpression" -> <<n.callee>> \o n.arguments
      [] n.type = "MemberExpression" -> <<n.object, n.property>>
      [] n.type = "TaggedTemplateExpression" -> <<n.tag, n.quasi>>
      [] n.type = "TemplateLiteral" -> n.quasis \o n.expressions
      [] n.type = "ObjectExpression" -> n.properties
      [] n.type = "ObjectProperty" -> <<n.key, n.value>>
      [] n.type = "ArrayExpression" -> SelectSeq(n.elements, LAMBDA c : c # NullNode)
      [] OTHER -> <<>>

\* A NodePath: the node and its ancestors, nearest first.
NodePath(node, ancestors) == [node |-> node, ancestors |-> ancestors]

RECURSIVE Descendants(_, _), DescendantsFrom(_, _, _)
\* The paths of the nodes strictly below n, in pre-order: the order in which
\* traverse(n, {enter}) and scope.traverse(n, {enter}) call enter.
Descendants(n, ancestors) == DescendantsFrom(Children(n), 1, <<n>> \o ancestors)

DescendantsFrom(cs, k, ancestors) ==
    IF k > Len(cs) THEN <<>>
    ELSE <<NodePath(cs[k], ancestors)>> \o Descendants(cs[k], ancestors)
            \o DescendantsFrom(cs, k + 1, ancestors)

----------------------------------------------------------------------------------------------------------------------------------------
(* Visitor: the completion checks.  Every check has the form               *)
(*     if (<shape of node> && 'g' in this._state) this._state.f = v;       *)
(* It is modelled by the writes it asks for, Write(g, f, v), in the order  *)
(* the code makes them; Apply performs a write on the _state, testing      *)
(* 'g' in this._state at that moment.                                      *)

S_use  == <<"u", "s", "e">>
S_db  == <<"d", "b">>
S_sp  == <<"s", "p">>
S_getCollection  == <<"g", "e", "t", "C", "o", "l", "l", "e", "c", "t", "i", "o", "n">>
S_getProcessor  == <<"g", "e", "t", "P", "r", "o", "c", "e", "s", "s", "o", "r">>
S_aggregate  == <<"a", "g", "g", "r", "e", "g", "a", "t", "e">>
S_find  == <<"f", "i", "n", "d">>

\* JavaScript's null where a string is expected: a value that is no string.
null == <<"null">>

\* if ('guard' in this._state) this._state.field = value
Write(guard, field, value) == [guard |-> guard, field |-> field, value |-> value]

\* this._state.field = value (creates the field when the object lacks it)
Assign(st, field, value) ==
    [f \in DOMAIN st \cup {field} |-> IF f = field THEN value ELSE st[f]]

Apply(st, w) == IF w.guard \in DOMAIN st THEN Assign(st, w.field, w.value) ELSE st

RECURSIVE ApplyAll(_, _, _, _)
\* The writes ws[lo..hi] performed in order on st.
ApplyAll(st, ws, lo, hi) ==
    IF lo > hi THEN st
    ELSE IF lo = hi THEN Apply(st, ws[lo])
    ELSE LET mid == (lo + hi) \div 2
         IN  ApplyAll(ApplyAll(st, ws, lo, mid), ws, mid + 1, hi)

RECURSIVE FlatMap(_, _, _, _)
\* F(s[lo]) \o ... \o F(s[hi]): a loop over s[lo..hi] that collects writes.
FlatMap(F(_), s, lo, hi) ==
    IF lo > hi THEN <<>>
    ELSE IF lo = hi THEN F(s[lo])
    ELSE LET mid == (lo + hi) \div 2
         IN  FlatMap(F, s, lo, mid) \o FlatMap(F, s, mid + 1, hi)

ForEach(s, F(_)) == FlatMap(F, s, 1, Len(s))

\* A variant of _getDefaultsForCompletion: one default is true by mistake.
_getDefaultsForCompletion_flagSet ==
    [databaseName |-> null, collectionName |-> null,
     streamProcessorName |-> null,
     isObjectKey |-> FALSE, isIdentifierObjectValue |-> FALSE,
     isTextObjectValue |-> FALSE, isStage |-> FALSE, stageOperator |-> null,
     isCollectionSymbol |-> FALSE, isStreamProcessorSymbol |-> FALSE,
     isUseCallExpression |-> FALSE, isGlobalSymbol |-> FALSE, isDbSymbol |-> FALSE,
     isSpSymbol |-> FALSE, isCollectionName |-> TRUE,
     isStreamProcessorName |-> FALSE, isAggregationCursor |-> FALSE,
     isFindCursor |-> FALSE]

\* A variant of _getDefaultsForCompletion: the object of the previous call
\* is used again instead of a new one.
_getDefaultsForCompletion_stale ==
    IF DOMAIN _state # {} THEN _state
    ELSE [x \in {"databaseName", "collectionName", "streamProcessorName",
                 "stageOperator"} |-> null]
         @@ [x \in {"isObjectKey", "isIdentifierObjectValue",
                    "isTextObjectValue", "isStage", "isCollectionSymbol",
                    "isStreamProcessorSymbol", "isUseCallExpression",
                    "isGlobalSymbol", "isDbSymbol", "isSpSymbol",
                    "isCollectionName", "isStreamProcessorName",
                    "isAggregationCursor", "isFindCursor"} |-> FALSE]

_getDefaultsForCompletion ==
    [databaseName |-> null, collectionName |-> null,
     streamProcessorName |-> null,
     isObjectKey |-> FALSE, isIdentifierObjectValue |-> FALSE,
     isTextObjectValue |-> FALSE, isStage |-> FALSE, stageOperator |-> null,
     isCollectionSymbol |-> FALSE, isStreamProcessorSymbol |-> FALSE,
     isUseCallExpression |-> FALSE, isGlobalSymbol |-> FALSE, isDbSymbol |-> FALSE,
     isSpSymbol |-> FALSE, isCollectionName |-> FALSE,
     isStreamProcessorName |-> FALSE, isAggregationCursor |-> FALSE,
     isFindCursor |-> FALSE]

_checkIsUseCallAsSimpleString(node) ==
    IF /\ node.callee.type = "Identifier"
       /\ node.callee.name = S_use
       /\ Len(node.arguments) = 1
       /\ node.arguments[1].type = "StringLiteral"
       /\ includes(node.arguments[1].value, PLACEHOLDER)
    THEN <<Write("isUseCallExpression", "isUseCallExpression", TRUE)>>
    ELSE <<>>

\* (an empty raw string is falsy: the empty template never matches)
_checkIsUseCallAsTemplate(node) ==
    IF /\ node.callee.type = "Identifier"
       /\ node.callee.name = S_use
       /\ Len(node.arguments) = 1
       /\ node.arguments[1].type = "TemplateLiteral"
       /\ Len(node.arguments[1].quasis) = 1
       /\ node.arguments[1].quasis[1].value.raw # <<>>
       /\ includes(node.arguments[1].quasis[1].value.raw, PLACEHOLDER)
    THEN <<Write("isUseCallExpression", "isUseCallExpression", TRUE)>>
    ELSE <<>>

_checkIsUseCall(node) ==
    _checkIsUseCallAsSimpleString(node) \o _checkIsUseCallAsTemplate(node)

_checkIsGlobalSymbol(node) ==
    IF /\ node.expression.type = "Identifier"
       /\ includes(node.expression.name, PLACEHOLDER)
    THEN <<Write("isGlobalSymbol", "isGlobalSymbol", TRUE)>>
    ELSE <<>>

\* A variant of _checkIsDbSymbol: it tests for the root sp, as _checkIsSpSymbol.
_checkIsDbSymbol_sp(node) ==
    IF /\ node.expression.type = "MemberExpression"
       /\ node.expression.object.type = "Identifier"
       /\ node.expression.object.name = S_sp
    THEN <<Write("isDbSymbol", "isDbSymbol", TRUE)>>
    ELSE <<>>

_checkIsDbSymbol(node) ==
    IF /\ node.expression.type = "MemberExpression"
       /\ node.expression.object.type = "Identifier"
       /\ node.expression.object.name = S_db
    THEN <<Write("isDbSymbol", "isDbSymbol", TRUE)>>
    ELSE <<>>

_checkIsSpSymbol(node) ==
    IF /\ node.expression.type = "MemberExpression"
       /\ node.expression.object.type = "Identifier"
       /\ node.expression.object.name = S_sp
    THEN <<Write("isSpSymbol", "isSpSymbol", TRUE)>>
    ELSE <<>>

\* node.properties.find(cb) with a callback that returns nothing: cb runs
\* on every property, in order.
_checkIsObjectKey(node) ==
    ForEach(node.properties, LAMBDA item :
        IF /\ item.type = "ObjectProperty"
           /\ item.key.type = "Identifier"
           /\ includes(item.key.name, PLACEHOLDER)
        THEN <<Write("isObjectKey", "isObjectKey", TRUE)>>
        ELSE <<>>)

_checkIsIdentifierObjectValue(node) ==
    ForEach(node.properties, LAMBDA item :
        IF /\ item.type = "ObjectProperty"
           /\ item.value.type = "Identifier"
           /\ includes(item.value.name, PLACEHOLDER)
        THEN <<Write("isIdentifierObjectValue", "isIdentifierObjectValue", TRUE)>>
        ELSE <<>>)

_checkIsTextObjectValue(node) ==
    ForEach(node.properties, LAMBDA item :
        IF \/ /\ item.type = "ObjectProperty"
              /\ item.value.type = "StringLiteral"
              /\ includes(item.value.value, PLACEHOLDER)
           \/ /\ item.type = "ObjectProperty"
              /\ item.value.type = "TemplateLiteral"
              /\ Len(item.value.quasis) = 1
              /\ includes(item.value.quasis[1].value.raw, PLACEHOLDER)
        THEN <<Write("isTextObjectValue", "isTextObjectValue", TRUE)>>
        ELSE <<>>)

_checkIsStage(node) ==
    ForEach(node.elements, LAMBDA element :
        IF element.type = "ObjectExpression"
        THEN ForEach(element.properties, LAMBDA item :
                IF /\ item.type = "ObjectProperty"
                   /\ item.key.type = "Identifier"
                   /\ includes(item.key.name, PLACEHOLDER)
                THEN <<Write("isStage", "isStage", TRUE)>>
                ELSE <<>>)
        ELSE <<>>)

\* A variant of _checkIsStageOperator: it records the key that holds the
\* sentinel, path.node.key.name, in place of the stage's key.
_checkIsStageOperator_inner(node) ==
    IF node.type = "ArrayExpression"
    THEN ForEach(node.elements, LAMBDA element :
            IF element.type = "ObjectExpression"
            THEN ForEach(element.properties, LAMBDA item :
                    IF /\ item.type = "ObjectProperty"
                       /\ item.key.type = "Identifier"
                       /\ item.value.type = "ObjectExpression"
                    THEN ForEach(Descendants(item, <<>>), LAMBDA path :
                            IF /\ path.node.type = "ObjectProperty"
                               /\ path.node.key.type = "Identifier"
                               /\ includes(path.node.key.name, PLACEHOLDER)
                            THEN <<Write("stageOperator", "stageOperator",
                                         path.node.key.name)>>
                            ELSE <<>>)
                    ELSE <<>>)
            ELSE <<>>)
    ELSE <<>>

\* For each property of each object element of the array whose key is an
\* identifier and whose value is an object: path.scope.traverse(item, ...)
\* enters every node below item, and each object property found there
\* whose key holds the sentinel sets stageOperator to item's key.
_checkIsStageOperator(node) ==
    IF node.type = "ArrayExpression"
    THEN ForEach(node.elements, LAMBDA element :
            IF element.type = "ObjectExpression"
            THEN ForEach(element.properties, LAMBDA item :
                    IF /\ item.type = "ObjectProperty"
                       /\ item.key.type = "Identifier"
                       /\ item.value.type = "ObjectExpression"
                    THEN ForEach(Descendants(item, <<>>), LAMBDA path :
                            IF /\ path.node.type = "ObjectProperty"
                               /\ path.node.key.type = "Identifier"
                               /\ includes(path.node.key.name, PLACEHOLDER)
                            THEN <<Write("stageOperator", "stageOperator",
                                         item.key.name)>>
                            ELSE <<>>)
                    ELSE <<>>)
            ELSE <<>>)
    ELSE <<>>

_checkIsCollectionNameAsMemberExpression(node) ==
    IF /\ node.object.type = "Identifier"
       /\ node.object.name = S_db
       /\ \/ /\ node.property.type = "Identifier"
             /\ includes(node.property.name, PLACEHOLDER)
          \/ /\ node.property.type = "StringLiteral"
             /\ includes(node.property.value, PLACEHOLDER)
    THEN <<Write("isCollectionName", "isCollectionName", TRUE)>>
    ELSE <<>>

_checkGetCollectionAsSimpleString(node) ==
    IF /\ node.arguments[1].type = "StringLiteral"
       /\ includes(node.arguments[1].value, PLACEHOLDER)
    THEN <<Write("isCollectionName", "isCollectionName", TRUE)>>
    ELSE <<>>

\* A variant of _checkGetCollectionAsTemplate: it asks the template to be
\* the sentinel, not to hold it.
_checkGetCollectionAsTemplate_equal(node) ==
    IF /\ node.arguments[1].type = "TemplateLiteral"
       /\ Len(node.arguments[1].quasis) = 1
       /\ node.arguments[1].quasis[1].value.raw = PLACEHOLDER
    THEN <<Write("isCollectionName", "isCollectionName", TRUE)>>
    ELSE <<>>

_checkGetCollectionAsTemplate(node) ==
    IF /\ node.arguments[1].type = "TemplateLiteral"
       /\ Len(node.arguments[1].quasis) = 1
       /\ includes(node.arguments[1].quasis[1].value.raw, PLACEHOLDER)
    THEN <<Write("isCollectionName", "isCollectionName", TRUE)>>
    ELSE <<>>

_checkIsCollectionNameAsCallExpression(node) ==
    IF /\ node.callee.type = "MemberExpression"
       /\ node.callee.object.type = "Identifier"
       /\ node.callee.object.name = S_db
       /\ node.callee.property.type = "Identifier"
       /\ node.callee.property.name = S_getCollection
       /\ Len(node.arguments) = 1
    THEN _checkGetCollectionAsSimpleString(node) \o _checkGetCollectionAsTemplate(node)
    ELSE <<>>

_checkHasAggregationCall(node) ==
    IF /\ node.object.type = "CallExpression"
       /\ node.property.type = "Identifier"
       /\ includes(node.property.name, PLACEHOLDER)
       /\ node.object.callee.type = "MemberExpression"
       /\ ~node.object.callee.computed
       /\ node.object.callee.property.type = "Identifier"
       /\ node.object.callee.property.name = S_aggregate
    THEN <<Write("isAggregationCursor", "isAggregationCursor", TRUE)>>
    ELSE <<>>

_checkHasFindCall(node) ==
    IF /\ node.object.type = "CallExpression"
       /\ node.property.type = "Identifier"
       /\ includes(node.property.name, PLACEHOLDER)
       /\ node.object.callee.type = "MemberExpression"
       /\ ~node.object.callee.computed
       /\ node.object.callee.property.type = "Identifier"
       /\ node.object.callee.property.name = S_find
    THEN <<Write("isFindCursor", "isFindCursor", TRUE)>>
    ELSE <<>>

\* A variant of _checkHasDatabaseName: it compares the zero-based line of
\* the cursor with the one-based line of the call's end.
_checkHasDatabaseName_line(selection, node) ==
    IF /\ node.callee.type = "Identifier"
       /\ node.callee.name = S_use
       /\ Len(node.arguments) = 1
       /\ node.arguments[1].type = "StringLiteral"
       /\ \/ selection.start.line > node.loc.end.line
          \/ /\ selection.start.line = node.loc.end.line
             /\ selection.start.character >= node.loc.end.column
    THEN <<Write("databaseName", "databaseName", node.arguments[1].value)>>
    ELSE <<>>

\* A variant of _checkHasDatabaseName: it attributes every use call,
\* wherever the cursor is.
_checkHasDatabaseName_anywhere(selection, node) ==
    IF /\ node.callee.type = "Identifier"
       /\ node.callee.name = S_use
       /\ Len(node.arguments) = 1
       /\ node.arguments[1].type = "StringLiteral"
    THEN <<Write("databaseName", "databaseName", node.arguments[1].value)>>
    ELSE <<>>

\* The call must end at or before the cursor: selection.start is the
\* position the caller gave, node.loc is a position in the parsed text.
_checkHasDatabaseName(selection, node) ==
    IF /\ node.callee.type = "Identifier"
       /\ node.callee.name = S_use
       /\ Len(node.arguments) = 1
       /\ node.arguments[1].type = "StringLiteral"
       /\ \/ selection.start.line > node.loc.end.line - 1
          \/ /\ selection.start.line = node.loc.end.line - 1
             /\ selection.start.character >= node.loc.end.column
    THEN <<Write("databaseName", "databaseName", node.arguments[1].value)>>
    ELSE <<>>

_checkHasCollectionNameMemberExpression(node) ==
    IF /\ node.object.type = "MemberExpression"
       /\ node.object.object.type = "Identifier"
       /\ node.object.object.name = S_db
    THEN IF node.object.property.type = "Identifier"
         THEN <<Write("collectionName", "collectionName", node.object.property.name)>>
         ELSE IF node.object.property.type = "StringLiteral"
         THEN <<Write("collectionName", "collectionName", node.object.property.value)>>
         ELSE <<>>
    ELSE <<>>

_checkHasCollectionNameCallExpression(node) ==
    IF /\ node.object.type = "CallExpression"
       /\ node.object.callee.type = "MemberExpression"
       /\ node.object.callee.object.type = "Identifier"
       /\ node.object.callee.object.name = S_db
       /\ node.object.callee.property.type = "Identifier"
       /\ node.object.callee.property.name = S_getCollection
       /\ Len(node.object.arguments) = 1
       /\ node.object.arguments[1].type = "StringLiteral"
    THEN <<Write("collectionName", "collectionName", node.object.arguments[1].value)>>
    ELSE <<>>

_checkHasCollectionName(node) ==
    _checkHasCollectionNameMemberExpression(node) \o _checkHasCollectionNameCallExpression(node)

_checkIsCollectionMemberExpression(node) ==
    IF /\ node.object.type = "MemberExpression"
       /\ node.object.object.type = "Identifier"
       /\ node.object.object.name = S_db
       /\ node.property.type = "Identifier"
       /\ includes(node.property.name, PLACEHOLDER)
    THEN <<Write("isCollectionSymbol", "isCollectionSymbol", TRUE)>>
    ELSE <<>>

_checkIsCollectionCallExpression(node) ==
    IF /\ node.object.type = "CallExpression"
       /\ node.object.callee.type = "MemberExpression"
       /\ node.object.callee.object.type = "Identifier"
       /\ node.object.callee.object.name = S_db
       /\ node.object.callee.property.type = "Identifier"
       /\ node.object.callee.property.name = S_getCollection
       /\ node.property.type = "Identifier"
       /\ includes(node.property.name, PLACEHOLDER)
    THEN <<Write("isCollectionSymbol", "isCollectionSymbol", TRUE)>>
    ELSE <<>>

_checkIsCollectionSymbol(node) ==
    _checkIsCollectionMemberExpression(node) \o _checkIsCollectionCallExpression(node)

\* Sets isSpSymbol as well as isStreamProcessorName.
_checkIsStreamProcessorNameAsMemberExpression(node) ==
    IF /\ node.object.type = "Identifier"
       /\ node.object.name = S_sp
       /\ \/ /\ node.property.type = "Identifier"
             /\ includes(node.property.name, PLACEHOLDER)
          \/ /\ node.property.type = "StringLiteral"
             /\ includes(node.property.value, PLACEHOLDER)
    THEN <<Write("isStreamProcessorName", "isSpSymbol", TRUE), Write("isStreamProcessorName", "isStreamProcessorName", TRUE)>>
    ELSE <<>>

_checkGetStreamProcessorAsSimpleString(node) ==
    IF /\ node.arguments[1].type = "StringLiteral"
       /\ includes(node.arguments[1].value, PLACEHOLDER)
    THEN <<Write("isStreamProcessorName", "isStreamProcessorName", TRUE)>>
    ELSE <<>>

_checkGetStreamProcessorAsTemplate(node) ==
    IF /\ node.arguments[1].type = "TemplateLiteral"
       /\ Len(node.arguments[1].quasis) = 1
       /\ includes(node.arguments[1].quasis[1].value.raw, PLACEHOLDER)
    THEN <<Write("isStreamProcessorName", "isStreamProcessorName", TRUE)>>
    ELSE <<>>

_checkIsStreamProcessorNameAsCallExpression(node) ==
    IF /\ node.callee.type = "MemberExpression"
       /\ node.callee.object.type = "Identifier"
       /\ node.callee.object.name = S_sp
       /\ node.callee.property.type = "Identifier"
       /\ node.callee.property.name = S_getProcessor
       /\ Len(node.arguments) = 1
    THEN _checkGetStreamProcessorAsSimpleString(node) \o _checkGetStreamProcessorAsTemplate(node)
    ELSE <<>>

_checkHasStreamProcessorNameMemberExpression(node) ==
    IF /\ node.object.type = "MemberExpression"
       /\ node.object.object.type = "Identifier"
       /\ node.object.object.name = S_sp
    THEN IF node.object.property.type = "Identifier"
         THEN <<Write("streamProcessorName", "streamProcessorName", node.object.property.name)>>
         ELSE IF node.object.property.type = "StringLiteral"
         THEN <<Write("streamProcessorName", "streamProcessorName", node.object.property.value)>>
         ELSE <<>>
    ELSE <<>>

_checkHasStreamProcessorNameCallExpression(node) ==
    IF /\ node.object.type = "CallExpression"
       /\ node.object.callee.type = "MemberExpression"
       /\ node.object.callee.object.type = "Identifier"
       /\ node.object.callee.object.name = S_sp
       /\ node.object.callee.property.type = "Identifier"
       /\ node.object.callee.property.name = S_getProcessor
       /\ Len(node.object.arguments) = 1
       /\ node.object.arguments[1].type = "StringLiteral"
    THEN <<Write("streamProcessorName", "streamProcessorName", node.object.arguments[1].value)>>
    ELSE <<>>

_checkHasStreamProcessorName(node) ==
    _checkHasStreamProcessorNameMemberExpression(node) \o _checkHasStreamProcessorNameCallExpression(node)

_checkIsStreamProcessorMemberExpression(node) ==
    IF /\ node.object.type = "MemberExpression"
       /\ node.object.object.type = "Identifier"
       /\ node.object.object.name = S_sp
       /\ node.property.type = "Identifier"
       /\ includes(node.property.name, PLACEHOLDER)
    THEN <<Write("isStreamProcessorSymbol", "isStreamProcessorSymbol", TRUE)>>
    ELSE <<>>

_checkIsStreamProcessorCallExpression(node) ==
    IF /\ node.object.type = "CallExpression"
       /\ node.object.callee.type = "MemberExpression"
       /\ node.object.callee.object.type = "Identifier"
       /\ node.object.callee.object.name = S_sp
       /\ node.object.callee.property.type = "Identifier"
       /\ node.object.callee.property.name = S_getProcessor
       /\ node.property.type = "Identifier"
       /\ includes(node.property.name, PLACEHOLDER)
    THEN <<Write("isStreamProcessorSymbol", "isStreamProcessorSymbol", TRUE)>>
    ELSE <<>>

_checkIsStreamProcessorSymbol(node) ==
    _checkIsStreamProcessorMemberExpression(node) \o _checkIsStreamProcessorCallExpression(node)

----------------------------------------------------------------------------
(* Visitor: the per-node visits, and the traversal of parseAST *)

_visitCallExpression(selection, node) ==
    IF node.type # "CallExpression" THEN <<>>
    ELSE _checkIsUseCall(node)
            \o _checkIsCollectionNameAsCallExpression(node)
            \o _checkIsStreamProcessorNameAsCallExpression(node)
            \o _checkHasDatabaseName(selection, node)

_visitMemberExpression(node) ==
    IF node.type # "MemberExpression" THEN <<>>
    ELSE _checkHasAggregationCall(node)
            \o _checkHasFindCall(node)
            \o _checkIsCollectionSymbol(node)
            \o _checkIsCollectionNameAsMemberExpression(node)
            \o _checkHasCollectionName(node)
            \o _checkIsStreamProcessorSymbol(node)
            \o _checkIsStreamProcessorNameAsMemberExpression(node)
            \o _checkHasStreamProcessorName(node)

_visitExpressionStatement(node) ==
    IF node.type = "ExpressionStatement"
    THEN _checkIsGlobalSymbol(node) \o _checkIsDbSymbol(node) \o _checkIsSpSymbol(node)
    ELSE <<>>

_visitObjectExpression(node) ==
    IF node.type = "ObjectExpression"
    THEN _checkIsObjectKey(node)
            \o _checkIsIdentifierObjectValue(node)
            \o _checkIsTextObjectValue(node)
    ELSE <<>>

_visitArrayExpression(node) ==
    IF node.type = "ArrayExpression"
    THEN _checkIsStage(node) \o _checkIsStageOperator(node)
    ELSE <<>>

\* The enter callback that parseAST gives to traverse.
Enter(selection, node) ==
    _visitCallExpression(selection, node)
        \o _visitMemberExpression(node)
        \o _visitExpressionStatement(node)
        \o _visitObjectExpression(node)
        \o _visitArrayExpression(node)

\* Visitor.parseAST on a Visitor whose _state is st: the _state it leaves.
\* A parse error is caught and leaves _state as it is; otherwise
\* traverse(ast, {enter}) calls enter on every node, in pre-order.
parseAST(st, textFromEditor, selection) ==
    LET r == Parse(textFromEditor) IN
    IF ~r.ok THEN st
    ELSE LET writes == ForEach(Descendants(r.ast, <<>>),
                               LAMBDA path : Enter(selection, path.node))
         IN  ApplyAll(st, writes, 1, Len(writes))

----------------------------------------------------------------------------
(* Visitor.parseASTForDiagnostics: the references of a document.  The      *)
(* three visitor callbacks are modelled by the events they produce, in the *)
(* order traverse calls them: an assignment to currentDatabase ("use"), a  *)
(* push of a collection reference, which is also the assignment to         *)
(* currentCollection ("collection"), and the pushes of method, operator    *)
(* and field references.  A reference reads currentDatabase and            *)
(* currentCollection as the latest assignment among the events before it.  *)

S_findOne  == <<"f", "i", "n", "d", "O", "n", "e">>
S_update  == <<"u", "p", "d", "a", "t", "e">>
S_updateOne  == <<"u", "p", "d", "a", "t", "e", "O", "n", "e">>
S_updateMany  == <<"u", "p", "d", "a", "t", "e", "M", "a", "n", "y">>
S_replaceOne  == <<"r", "e", "p", "l", "a", "c", "e", "O", "n", "e">>
S_group  == <<"$", "g", "r", "o", "u", "p">>
S_project  == <<"$", "p", "r", "o", "j", "e", "c", "t">>
S_addFields  == <<"$", "a", "d", "d", "F", "i", "e", "l", "d", "s">>
S_setStage  == <<"$", "s", "e", "t">>
S_bucket  == <<"$", "b", "u", "c", "k", "e", "t">>
S_bucketAuto  == <<"$", "b", "u", "c", "k", "e", "t", "A", "u", "t", "o">>
S_facet  == <<"$", "f", "a", "c", "e", "t">>
S_setWindowFields  ==
    <<"$", "s", "e", "t", "W", "i", "n", "d", "o", "w", "F", "i", "e", "l", "d", "s">>

\* A variant of EmptyReferences: the databaseName is not initialised.
EmptyReferences_undefined ==
    [collections |-> <<>>, fields |-> <<>>, operators |-> <<>>,
     methods |-> <<>>, databaseName |-> S_undefined]

\* The object parseASTForDiagnostics starts from, and returns on a parse error.
EmptyReferences ==
    [collections |-> <<>>, fields |-> <<>>, operators |-> <<>>,
     methods |-> <<>>, databaseName |-> null]

\* A variant of Location: the lines stay 1-based.
Location_oneBased(node) ==
    [start |-> [line |-> node.loc.start.line, character |-> node.loc.start.column],
     end |-> [line |-> node.loc.end.line, character |-> node.loc.end.column]]

\* location: {start: {line: loc.start.line - 1, character: loc.start.column},
\*            end:   {line: loc.end.line - 1,   character: loc.end.column}}
Location(node) ==
    [start |-> [line |-> node.loc.start.line - 1,
                character |-> node.loc.start.column],
     end |-> [line |-> node.loc.end.line - 1,
              character |-> node.loc.end.column]]

\* path.findParent(p => p.node.type === type): the position among the
\* ancestors (nearest first) of the nearest one of that type, 0 if none.
NearestOfType(ancestors, type) ==
    LET S == {i \in DOMAIN ancestors : ancestors[i].type = type}
    IN  IF S = {} THEN 0 ELSE CHOOSE i \in S : \A j \in S : i <= j

\* The visitor's CallExpression callback: use('<string>') sets
\* currentDatabase and references.databaseName.
Diagnostics_CallExpression(path) ==
    LET node == path.node IN
    IF /\ node.type = "CallExpression"
       /\ node.callee.type = "Identifier"
       /\ node.callee.name = S_use
       /\ Len(node.arguments) = 1
       /\ node.arguments[1].type = "StringLiteral"
    THEN <<[kind |-> "use", value |-> node.arguments[1].value]>>
    ELSE <<>>

\* A variant of IsCallee: any member access counts, called or not.
IsCallee_always(path) == TRUE

\* parent.type === 'CallExpression' && parent.callee === node
IsCallee(path) ==
    /\ path.ancestors # <<>>
    /\ path.ancestors[1].type = "CallExpression"
    /\ path.ancestors[1].callee = path.node

\* A variant of CollectionNameOf: only the dot form is read.
CollectionNameOf_dotOnly(node) ==
    IF node.property.type = "Identifier" /\ ~node.computed THEN node.property.name
    ELSE null

\* The name the MemberExpression callback reads from db.<property>.
CollectionNameOf(node) ==
    IF node.property.type = "Identifier" THEN node.property.name
    ELSE IF node.property.type = "StringLiteral" THEN node.property.value
    ELSE null

\* The first half of the MemberExpression callback: the object is db.
Diagnostics_DbMember(path) ==
    LET node == path.node IN
    IF node.object.type = "Identifier" /\ node.object.name = S_db
    THEN (IF CollectionNameOf(node) # null /\ CollectionNameOf(node) # <<>>
          THEN <<[kind |-> "collection",
                  collectionName |-> CollectionNameOf(node),
                  location |-> Location(node)]>>
          ELSE <<>>)
         \o
         (IF IsCallee(path) /\ node.property.type = "Identifier"
          THEN <<[kind |-> "method", method |-> node.property.name,
                  target |-> "db", location |-> Location(node)]>>
          ELSE <<>>)
    ELSE <<>>

\* The second half of the MemberExpression callback: the object is db.<x>.
Diagnostics_CollectionMember(path) ==
    LET node == path.node IN
    IF /\ node.object.type = "MemberExpression"
       /\ node.object.object.type = "Identifier"
       /\ node.object.object.name = S_db
       /\ node.property.type = "Identifier"
       /\ IsCallee(path)
    THEN <<[kind |-> "method", method |-> node.property.name,
            target |-> "collection", location |-> Location(node)]>>
    ELSE <<>>

Diagnostics_MemberExpression(path) ==
    IF path.node.type = "MemberExpression"
    THEN Diagnostics_DbMember(path) \o Diagnostics_CollectionMember(path)
    ELSE <<>>

\* The keys of the stages whose operators are aggregation expressions.
ExpressionStages ==
    {S_group, S_project, S_addFields, S_setStage, S_bucket, S_bucketAuto, S_facet,
     S_setWindowFields}

\* The context of the operator reference of the ObjectProperty at path.
OperatorContext(path) ==
    LET parentArray == NearestOfType(path.ancestors, "ArrayExpression")
        depth == Cardinality({i \in 1..(parentArray - 1) :
                                path.ancestors[i].type = "ObjectExpression"})
        stageContext ==
            \E i \in DOMAIN path.ancestors :
                /\ path.ancestors[i].type = "ObjectProperty"
                /\ path.ancestors[i].key.type = "Identifier"
                /\ path.ancestors[i].key.name \in ExpressionStages
    IN  IF parentArray # 0
        THEN IF depth = 1 THEN "stage"
             ELSE IF stageContext THEN "aggregation" ELSE "query"
        ELSE IF NearestOfType(path.ancestors, "ObjectProperty") # 0
             THEN "query" ELSE "other"

\* A variant of ContextOfMethod: find is not among the query methods.
ContextOfMethod_noFind(methodName) ==
    IF methodName = S_findOne THEN "find"
    ELSE IF methodName = S_aggregate THEN "aggregate"
    ELSE IF methodName \in {S_update, S_updateOne, S_updateMany, S_replaceOne}
         THEN "update"
    ELSE "other"

\* The context a method name gives to the field references below its call.
ContextOfMethod(methodName) ==
    IF methodName \in {S_find, S_findOne} THEN "find"
    ELSE IF methodName = S_aggregate THEN "aggregate"
    ELSE IF methodName \in {S_update, S_updateOne, S_updateMany, S_replaceOne}
         THEN "update"
    ELSE "other"

\* The context of a callee: that of its property name when it is a member
\* access with an Identifier property.
ContextOfCallee(callee) ==
    IF callee.type = "MemberExpression" /\ callee.property.type = "Identifier"
    THEN ContextOfMethod(callee.property.name)
    ELSE "other"

\* A variant of FieldContext: the outermost enclosing call decides.
FieldContext_outermost(path) ==
    LET S == {i \in DOMAIN path.ancestors :
                path.ancestors[i].type = "CallExpression"}
    IN  IF S = {} THEN "other"
        ELSE ContextOfCallee(
                path.ancestors[CHOOSE i \in S : \A j \in S : i >= j].callee)

\* The context of the field reference of the ObjectProperty at path.
FieldContext(path) ==
    LET callExpression == NearestOfType(path.ancestors, "CallExpression")
    IN  IF callExpression = 0 THEN "other"
        ELSE ContextOfCallee(path.ancestors[callExpression].callee)

\* The visitor's ObjectProperty callback.
Diagnostics_ObjectProperty(path) ==
    LET node == path.node IN
    IF node.type = "ObjectProperty" /\ node.key.type = "Identifier"
    THEN IF startsWith(node.key.name, <<"$">>)
         THEN <<[kind |-> "operator", operator |-> node.key.name,
                 location |-> Location(node),
                 context |-> OperatorContext(path)]>>
         ELSE <<[kind |-> "field", fieldName |-> node.key.name,
                 location |-> Location(node),
                 context |-> FieldContext(path)]>>
    ELSE <<>>

\* What the visitor does at one node.
Diagnostics_Visit(path) ==
    Diagnostics_CallExpression(path)
        \o Diagnostics_MemberExpression(path)
        \o Diagnostics_ObjectProperty(path)

\* A variant of Assigned: the first assignment is never overwritten.
Assigned_first(events, i, kind) ==
    LET S == {j \in 1..(i - 1) : events[j].kind = kind}
    IN  IF S = {} THEN 0 ELSE CHOOSE j \in S : \A k \in S : k >= j

\* The event that made the latest assignment of the given kind before
\* event i (0 if there is none: the variable is still null).
Assigned(events, i, kind) ==
    LET S == {j \in 1..(i - 1) : events[j].kind = kind}
    IN  IF S = {} THEN 0 ELSE CHOOSE j \in S : \A k \in S : k <= j

\* currentDatabase and currentCollection when event i happens.
currentDatabase(events, i) ==
    IF Assigned(events, i, "use") = 0 THEN null
    ELSE events[Assigned(events, i, "use")].value

currentCollection(events, i) ==
    IF Assigned(events, i, "collection") = 0 THEN null
    ELSE events[Assigned(events, i, "collection")].collectionName

\* The record that event i pushes.
Reference(events, i) ==
    LET e == events[i] IN
    CASE e.kind = "collection" ->
            [collectionName |-> e.collectionName,
             databaseName |-> currentDatabase(events, i),
             location |-> e.location]
      [] e.kind = "field" ->
            [fieldName |-> e.fieldName,
             collectionName |-> currentCollection(events, i),
             databaseName |-> currentDatabase(events, i),
             location |-> e.location, context |-> e.context]
      [] e.kind = "operator" ->
            [operator |-> e.operator, location |-> e.location,
             context |-> e.context]
      [] e.kind = "method" ->
            [method |-> e.method, target |-> e.target, location |-> e.location]

\* The records pushed to one list of references, in order.
Pushed(events, kind) ==
    LET at == SelectSeq([i \in DOMAIN events |-> i],
                        LAMBDA i : events[i].kind = kind)
    IN  [k \in DOMAIN at |-> Reference(events, at[k])]

\* The references object once the traversal has produced the events.
References(events) ==
    [collections |-> Pushed(events, "collection"),
     fields |-> Pushed(events, "field"),
     operators |-> Pushed(events, "operator"),
     methods |-> Pushed(events, "method"),
     databaseName |-> currentDatabase(events, Len(events) + 1)]

\* Visitor.parseASTForDiagnostics: the object it returns.
parseASTForDiagnostics(textFromEditor) ==
    LET r == Parse(textFromEditor) IN
    IF ~r.ok THEN EmptyReferences
    ELSE References(ForEach(Descendants(r.ast, <<>>),
                            LAMBDA path : Diagnostics_Visit(path)))


----------------
(* The documents and cursor positions the Visitor is called with *)

\* db.
Doc_dbDot ==
    <<"d", "b", ".">>

\* db.orders.aggregate([{$match: {qty: {$gt: 5}}}])
Doc_match ==
    <<"d", "b", ".", "o", "r", "d", "e", "r", "s", ".", "a", "g", "g", "r",
      "e", "g", "a", "t", "e", "(", "[", "{", "$", "m", "a", "t", "c", "h",
      ":", " ", "{", "q", "t", "y", ":", " ", "{", "$", "g", "t", ":", " ",
      "5", "}", "}", "}", "]", ")">>

\* use('a'); db.x.find(); use('b'); db.y.find();
Doc_useTwice ==
    <<"u", "s", "e", "(", "'", "a", "'", ")", ";", " ", "d", "b", ".", "x",
      ".", "f", "i", "n", "d", "(", ")", ";", " ", "u", "s", "e", "(", "'",
      "b", "'", ")", ";", " ", "d", "b", ".", "y", ".", "f", "i", "n", "d",
      "(", ")", ";">>

\* use('a')\nuse("b")\nx\nuse(`t`)\nuse('c')
Doc_useLines ==
    <<"u", "s", "e", "(", "'", "a", "'", ")", "\n", "u", "s", "e", "(", "\"",
      "b", "\"", ")", "\n", "x", "\n", "u", "s", "e", "(", BACKTICK, "t",
      BACKTICK, ")", "\n", "u", "s", "e", "(", "'", "c", "'", ")">>

\* db.c.aggregate([{$match: {$or: [{qty: {$gt: 5}}]}}, {$sort: {n: 1}}])
Doc_pipeline ==
    <<"d", "b", ".", "c", ".", "a", "g", "g", "r", "e", "g", "a", "t", "e",
      "(", "[", "{", "$", "m", "a", "t", "c", "h", ":", " ", "{", "$", "o",
      "r", ":", " ", "[", "{", "q", "t", "y", ":", " ", "{", "$", "g", "t",
      ":", " ", "5", "}", "}", "]", "}", "}", ",", " ", "{", "$", "s", "o",
      "r", "t", ":", " ", "{", "n", ":", " ", "1", "}", "}", "]", ")">>

\* db.a.find({})\ndb.b.find()
Doc_twoCollections ==
    <<"d", "b", ".", "a", ".", "f", "i", "n", "d", "(", "{", "}", ")", "\n",
      "d", "b", ".", "b", ".", "f", "i", "n", "d", "(", ")">>

\* sp.p.stats({})\nsp.q.stats()
Doc_twoProcessors ==
    <<"s", "p", ".", "p", ".", "s", "t", "a", "t", "s", "(", "{", "}", ")",
      "\n", "s", "p", ".", "q", ".", "s", "t", "a", "t", "s", "(", ")">>

\* db.x\nfoo({k: v})\nsp.y
Doc_statements ==
    <<"d", "b", ".", "x", "\n", "f", "o", "o", "(", "{", "k", ":", " ", "v",
      "}", ")", "\n", "s", "p", ".", "y">>

\* db.NAME
Doc_dbName ==
    <<"d", "b", ".", "N", "A", "M", "E">>

\* db['NAME']
Doc_dbBracket ==
    <<"d", "b", "[", "'", "N", "A", "M", "E", "'", "]">>

\* db.getCollection('NAME')
Doc_dbGetString ==
    <<"d", "b", ".", "g", "e", "t", "C", "o", "l", "l", "e", "c", "t", "i",
      "o", "n", "(", "'", "N", "A", "M", "E", "'", ")">>

\* db.getCollection(`NAME`)
Doc_dbGetTemplate ==
    <<"d", "b", ".", "g", "e", "t", "C", "o", "l", "l", "e", "c", "t", "i",
      "o", "n", "(", BACKTICK, "N", "A", "M", "E", BACKTICK, ")">>

\* sp.NAME
Doc_spName ==
    <<"s", "p", ".", "N", "A", "M", "E">>

\* sp['NAME']
Doc_spBracket ==
    <<"s", "p", "[", "'", "N", "A", "M", "E", "'", "]">>

\* sp.getProcessor('NAME')
Doc_spGetString ==
    <<"s", "p", ".", "g", "e", "t", "P", "r", "o", "c", "e", "s", "s", "o",
      "r", "(", "'", "N", "A", "M", "E", "'", ")">>

\* sp.getProcessor(`NAME`)
Doc_spGetTemplate ==
    <<"s", "p", ".", "g", "e", "t", "P", "r", "o", "c", "e", "s", "s", "o",
      "r", "(", BACKTICK, "N", "A", "M", "E", BACKTICK, ")">>

\* use('s')\ndb.x.find({a: 'b', c: `d`})\nfoo([{k: {m: 't'}}])
Doc_strings ==
    <<"u", "s", "e", "(", "'", "s", "'", ")", "\n", "d", "b", ".", "x", ".",
      "f", "i", "n", "d", "(", "{", "a", ":", " ", "'", "b", "'", ",", " ",
      "c", ":", " ", BACKTICK, "d", BACKTICK, "}", ")", "\n", "f", "o", "o",
      "(", "[", "{", "k", ":", " ", "{", "m", ":", " ", "'", "t", "'", "}",
      "}", "]", ")">>

\* db.x.find().\ndb.getCollection('x').aggregate().n\ndb.x.\nsp.getProcessor('y').
Doc_cursors ==
    <<"d", "b", ".", "x", ".", "f", "i", "n", "d", "(", ")", ".", "\n", "d",
      "b", ".", "g", "e", "t", "C", "o", "l", "l", "e", "c", "t", "i", "o",
      "n", "(", "'", "x", "'", ")", ".", "a", "g", "g", "r", "e", "g", "a",
      "t", "e", "(", ")", ".", "n", "\n", "d", "b", ".", "x", ".", "\n", "s",
      "p", ".", "g", "e", "t", "P", "r", "o", "c", "e", "s", "s", "o", "r",
      "(", "'", "y", "'", ")", ".">>

Docs ==
    {Doc_dbDot, Doc_match, Doc_useTwice, Doc_useLines,
     Doc_pipeline, Doc_twoCollections, Doc_twoProcessors, Doc_statements,
     Doc_dbName, Doc_dbBracket, Doc_dbGetString, Doc_dbGetTemplate,
     Doc_spName, Doc_spBracket, Doc_spGetString, Doc_spGetTemplate,
     Doc_strings, Doc_cursors}

\* use('shop'); db.orders.find({status: 'A'})
Doc_shop ==
    <<"u", "s", "e", "(", "'", "s", "h", "o", "p", "'", ")", ";", " ", "d",
      "b", ".", "o", "r", "d", "e", "r", "s", ".", "f", "i", "n", "d", "(",
      "{", "s", "t", "a", "t", "u", "s", ":", " ", "'", "A", "'", "}", ")">>

\* db.c.aggregate([{$group: {t: {$sum: 1}}}, {"$group": {u: {$max: 2}}}])
Doc_group ==
    <<"d", "b", ".", "c", ".", "a", "g", "g", "r", "e", "g", "a", "t", "e",
      "(", "[", "{", "$", "g", "r", "o", "u", "p", ":", " ", "{", "t", ":",
      " ", "{", "$", "s", "u", "m", ":", " ", "1", "}", "}", "}", ",", " ",
      "{", "\"", "$", "g", "r", "o", "u", "p", "\"", ":", " ", "{", "u", ":",
      " ", "{", "$", "m", "a", "x", ":", " ", "2", "}", "}", "}", "]", ")">>

\* db.c.find({a: {$gt: 1}, $where: 'x'})\n[{$x: {$y: 1}, f: 1}]
Doc_operators ==
    <<"d", "b", ".", "c", ".", "f", "i", "n", "d", "(", "{", "a", ":", " ",
      "{", "$", "g", "t", ":", " ", "1", "}", ",", " ", "$", "w", "h", "e",
      "r", "e", ":", " ", "'", "x", "'", "}", ")", "\n", "[", "{", "$", "x",
      ":", " ", "{", "$", "y", ":", " ", "1", "}", ",", " ", "f", ":", " ",
      "1", "}", "]">>

\* db.c.updateOne({a: 1}, {$set: {b: 2}})\nfoo({k: 1})\ndb.c.aggregate([{$match: {d: bar({e: 1})}}])\ndb.c.find({g: x.count({h: 1})})\ndb.c.insertOne({m: 1})
Doc_contexts ==
    <<"d", "b", ".", "c", ".", "u", "p", "d", "a", "t", "e", "O", "n", "e",
      "(", "{", "a", ":", " ", "1", "}", ",", " ", "{", "$", "s", "e", "t",
      ":", " ", "{", "b", ":", " ", "2", "}", "}", ")", "\n", "f", "o", "o",
      "(", "{", "k", ":", " ", "1", "}", ")", "\n", "d", "b", ".", "c", ".",
      "a", "g", "g", "r", "e", "g", "a", "t", "e", "(", "[", "{", "$", "m",
      "a", "t", "c", "h", ":", " ", "{", "d", ":", " ", "b", "a", "r", "(",
      "{", "e", ":", " ", "1", "}", ")", "}", "}", "]", ")", "\n", "d", "b",
      ".", "c", ".", "f", "i", "n", "d", "(", "{", "g", ":", " ", "x", ".",
      "c", "o", "u", "n", "t", "(", "{", "h", ":", " ", "1", "}", ")", "}",
      ")", "\n", "d", "b", ".", "c", ".", "i", "n", "s", "e", "r", "t", "O",
      "n", "e", "(", "{", "m", ":", " ", "1", "}", ")">>

\* db.stats()\ndb.orders.find\nfoo(db.orders.find, db.users)\ndb.a.b.c()\ndb.getCollection('o').find({})\nx.y.z()\ndb.orders.count()
Doc_methods ==
    <<"d", "b", ".", "s", "t", "a", "t", "s", "(", ")", "\n", "d", "b", ".",
      "o", "r", "d", "e", "r", "s", ".", "f", "i", "n", "d", "\n", "f", "o",
      "o", "(", "d", "b", ".", "o", "r", "d", "e", "r", "s", ".", "f", "i",
      "n", "d", ",", " ", "d", "b", ".", "u", "s", "e", "r", "s", ")", "\n",
      "d", "b", ".", "a", ".", "b", ".", "c", "(", ")", "\n", "d", "b", ".",
      "g", "e", "t", "C", "o", "l", "l", "e", "c", "t", "i", "o", "n", "(",
      "'", "o", "'", ")", ".", "f", "i", "n", "d", "(", "{", "}", ")", "\n",
      "x", ".", "y", ".", "z", "(", ")", "\n", "d", "b", ".", "o", "r", "d",
      "e", "r", "s", ".", "c", "o", "u", "n", "t", "(", ")">>

\* use('a')\ndb.x.find({f: 1})\nuse('b')\ndb['y'].find({g: 2, 'h': 3, [k]: 4, "$in": 5, 6: 7})\ndb.z
Doc_keys ==
    <<"u", "s", "e", "(", "'", "a", "'", ")", "\n", "d", "b", ".", "x", ".",
      "f", "i", "n", "d", "(", "{", "f", ":", " ", "1", "}", ")", "\n", "u",
      "s", "e", "(", "'", "b", "'", ")", "\n", "d", "b", "[", "'", "y", "'",
      "]", ".", "f", "i", "n", "d", "(", "{", "g", ":", " ", "2", ",", " ",
      "'", "h", "'", ":", " ", "3", ",", " ", "[", "k", "]", ":", " ", "4",
      ",", " ", "\"", "$", "i", "n", "\"", ":", " ", "5", ",", " ", "6", ":",
      " ", "7", "}", ")", "\n", "d", "b", ".", "z">>

\* foo({k: 1}); db.x; use('s'); db.y.find({f: 1})
Doc_early ==
    <<"f", "o", "o", "(", "{", "k", ":", " ", "1", "}", ")", ";", " ", "d",
      "b", ".", "x", ";", " ", "u", "s", "e", "(", "'", "s", "'", ")", ";",
      " ", "d", "b", ".", "y", ".", "f", "i", "n", "d", "(", "{", "f", ":",
      " ", "1", "}", ")">>

\* use('shop'); db.orders.find({status: )
Doc_broken ==
    <<"u", "s", "e", "(", "'", "s", "h", "o", "p", "'", ")", ";", " ", "d",
      "b", ".", "o", "r", "d", "e", "r", "s", ".", "f", "i", "n", "d", "(",
      "{", "s", "t", "a", "t", "u", "s", ":", " ", ")">>

\* if (x) { use('a'); db.p } else db.o\ndb.q.find({f: 1})\n{ use('b') }\ndb.r.find({g: 2})
Doc_scopes ==
    <<"i", "f", " ", "(", "x", ")", " ", "{", " ", "u", "s", "e", "(", "'",
      "a", "'", ")", ";", " ", "d", "b", ".", "p", " ", "}", " ", "e", "l",
      "s", "e", " ", "d", "b", ".", "o", "\n", "d", "b", ".", "q", ".", "f",
      "i", "n", "d", "(", "{", "f", ":", " ", "1", "}", ")", "\n", "{", " ",
      "u", "s", "e", "(", "'", "b", "'", ")", " ", "}", "\n", "d", "b", ".",
      "r", ".", "f", "i", "n", "d", "(", "{", "g", ":", " ", "2", "}", ")">>

\* The documents parseASTForDiagnostics is called with.
DiagnosticDocs ==
    Docs \cup {Doc_shop, Doc_group, Doc_operators, Doc_contexts, Doc_methods,
               Doc_keys, Doc_early, Doc_broken, Doc_scopes}

\* How far past the end of a line, and past the last line, a cursor may be.
MaxPast == 1

\* Zero-based positions: every offset of every line, and up to MaxPast
\* columns past the end of a line and MaxPast lines past the last one.
Positions(text) ==
    LET lines == split(text)
        LineLen(l) == IF l < Len(lines) THEN Len(lines[l + 1]) ELSE 0
    IN  UNION {{[line |-> l, character |-> c] : c \in 0..(LineLen(l) + MaxPast)} :
                l \in 0..(Len(lines) - 1 + MaxPast)}

----------------------------------------------------------------------------------------------------------------------------------------
(* The state machine: a new Visitor, and one call of parseASTForCompletion *)
(* with a document and a cursor position, or one call of                   *)
(* parseASTForDiagnostics with a document.                                 *)

\* No message has been handled yet.
NoEvent ==
    [client |-> 0, kind |-> "none", params |-> <<>>, reply |-> "undefined",
     calls |-> <<>>, sent |-> <<>>]

\* No server process runs: the Visitor is used on its own.
ServerOff ==
    /\ pc = "off"
    /\ process = [argv |-> <<>>, env |-> <<>>, files |-> <<>>]
    /\ config = <<>>
    /\ connectionCount = 0
    /\ clients = <<>>
    /\ event = NoEvent

\* new Visitor(), and the arguments of the call that is about to be made.
Init ==
    /\ ServerOff
    /\ _state = <<>>
    /\ held = [result |-> <<>>, shared |-> FALSE]
    /\ _selection = [start |-> [line |-> 0, character |-> 0],
                     end |-> [line |-> 0, character |-> 0]]
    /\ \/ \E text \in Docs : \E position \in Positions(text) :
            call = [op |-> "parseASTForCompletion", status |-> "called",
                    textFromEditor |-> text, position |-> position]
       \/ \E text \in DiagnosticDocs :
            call = [op |-> "parseASTForDiagnostics", status |-> "called",
                    textFromEditor |-> text]

\* Visitor.parseASTForCompletion, from the reset of _state to the return
\* (status "returned", with the returned object's content in result) or to
\* the TypeError that _handleTriggerCharacter raises (status "threw").
ParseASTForCompletion ==
    /\ call.op = "parseASTForCompletion"
    /\ call.status = "called"
    /\ LET selection == [start |-> call.position,
                         end |-> [line |-> 0, character |-> 0]]
           defaults == _getDefaultsForCompletion
           injected == _handleTriggerCharacter(call.textFromEditor, call.position)
       IN  IF injected.threw
           THEN /\ _state' = defaults
                /\ UNCHANGED _selection
                /\ call' = [call EXCEPT !.status = "threw"]
                /\ held' = [held EXCEPT !.shared = FALSE]
           ELSE /\ _selection' = selection
                /\ _state' = parseAST(defaults, injected.text, selection)
                /\ call' = [result |-> _state']
                                @@ [call EXCEPT !.status = "returned"]
                /\ held' = [result |-> _state', shared |-> TRUE]
    /\ UNCHANGED serverVars

\* Visitor.parseASTForDiagnostics: it works on local variables only, and
\* returns (it catches the parser's exception).
ParseASTForDiagnostics ==
    /\ call.op = "parseASTForDiagnostics"
    /\ call.status = "called"
    /\ call' = [result |-> parseASTForDiagnostics(call.textFromEditor)]
                    @@ [call EXCEPT !.status = "returned"]
    /\ UNCHANGED <<_state, _selection, held>>
    /\ UNCHANGED serverVars

Next == ParseASTForCompletion \/ ParseASTForDiagnostics

Spec == Init /\ [][Next]_vars

----------------------------------------------------------------------------
(* A second state machine: calls made one after another on one Visitor.    *)
(* Each call record keeps, in after, the operation of the call before it.  *)

\* The documents of the calls that follow one another.
CallDocs == {Doc_dbDot, Doc_dbName, Doc_spName}

\* new Visitor(): the constructor has returned.
InitCalls ==
    /\ ServerOff
    /\ _state = <<>>
    /\ held = [result |-> <<>>, shared |-> FALSE]
    /\ _selection = [start |-> [line |-> 0, character |-> 0],
                     end |-> [line |-> 0, character |-> 0]]
    /\ call = [op |-> "constructor", status |-> "returned"]

\* The caller makes the next call, once the previous one has returned or
\* thrown; to parseAST it gives a document with the sentinel at its end,
\* and the selection that starts there.
Invoke ==
    /\ call.status \in {"returned", "threw"}
    /\ \/ \E text \in CallDocs : \E position \in Positions(text) :
            call' = [op |-> "parseASTForCompletion", status |-> "called",
                     textFromEditor |-> text, position |-> position,
                     after |-> call.op]
       \/ \E text \in CallDocs :
            call' = [op |-> "parseASTForDiagnostics", status |-> "called",
                     textFromEditor |-> text, after |-> call.op]
       \/ \E text \in CallDocs :
            LET position == [line |-> 0, character |-> Len(text)] IN
            call' = [op |-> "parseAST", status |-> "called",
                     textFromEditor |-> text \o PLACEHOLDER,
                     selection |-> [start |-> position,
                                    end |-> [line |-> 0, character |-> 0]],
                     after |-> call.op]
    /\ UNCHANGED <<_state, _selection, held>>
    /\ UNCHANGED serverVars

\* Visitor.parseAST called by the caller itself: it sets _selection and
\* writes into the object _state refers to, which it does not replace.
ParseAST ==
    /\ call.op = "parseAST"
    /\ call.status = "called"
    /\ _selection' = call.selection
    /\ _state' = parseAST(_state, call.textFromEditor, call.selection)
    /\ call' = [call EXCEPT !.status = "returned"]
    /\ UNCHANGED held
    /\ UNCHANGED serverVars

NextCalls ==
    \/ Invoke
    \/ ParseASTForCompletion
    \/ ParseASTForDiagnostics
    \/ ParseAST

SpecCalls == InitCalls /\ [][NextCalls]_vars

----------------------------------------------------------------------------
(* What the claims speak about *)

\* A call of parseASTForCompletion has returned.
Returned == call.op = "parseASTForCompletion" /\ call.status = "returned"

\* The text that was parsed: the document with the sentinel at the cursor.
Injected == _handleTriggerCharacter(call.textFromEditor, call.position).text

\* The outcome of parser.parse on that text.
Parsing == Parse(Injected)

\* The cursor of the call is at character c of line l of document text.
At(text, l, c) ==
    /\ call.textFromEditor = text
    /\ call.position = [line |-> l, character |-> c]

\* The parser model covers every text the calls make it parse.
InSubset == Returned => (Parsing.ok \/ Parsing.why = "syntax")


\* The object the call returned.
Result == call.result

\* The outcome of parser.parse on the document itself, without the sentinel.
Document == Parse(call.textFromEditor)

\* The paths of all nodes of the parsed text, in the traverser's order.
Paths == Descendants(Parsing.ast, <<>>)
Nodes == {Paths[i].node : i \in DOMAIN Paths}

\* The source text of node n holds the sentinel.
HoldsSentinel(n) == includes(SubSeq(Injected, n.start + 1, n.end), PLACEHOLDER)

\* The statements of the parsed program that hold the sentinel.
CursorStatements ==
    LET stmts == Parsing.ast.program.body
    IN  {stmts[i] : i \in {j \in DOMAIN stmts : HoldsSentinel(stmts[j])}}

NameFields == {"databaseName", "collectionName", "streamProcessorName", "stageOperator"}
FlagFields ==
    {"isObjectKey", "isIdentifierObjectValue", "isTextObjectValue", "isStage",
     "isCollectionSymbol", "isStreamProcessorSymbol", "isUseCallExpression",
     "isGlobalSymbol", "isDbSymbol", "isSpSymbol", "isCollectionName",
     "isStreamProcessorName", "isAggregationCursor", "isFindCursor"}

\* st is the all-default CompletionState.
AllDefault(st) ==
    /\ DOMAIN st = NameFields \cup FlagFields
    /\ \A f \in NameFields : st[f] = null
    /\ \A f \in FlagFields : st[f] = FALSE

\* The state that parseASTForCompletion(text, position) returns.
Completion(text, position) ==
    parseAST(_getDefaultsForCompletion, _handleTriggerCharacter(text, position).text,
             [start |-> position, end |-> [line |-> 0, character |-> 0]])

S_match == <<"$", "m", "a", "t", "c", "h">>
S_a == <<"a">>
S_b == <<"b">>

----------------------------------------------------------------------------
\* C1: whenever the text with the sentinel injected fails to parse, the
\* returned state is the all-default CompletionState: the four name fields
\* are null and every boolean flag is false.
C1_ParseFailureReturnsDefaults ==
    (Returned /\ ~Parsing.ok) => AllDefault(Result)

\* A call has returned for a cursor after the colon of qty in the $match
\* document, where the injected text is no JavaScript.
C1_Witness ==
    Returned /\ At(Doc_match, 0, 35) /\ ~Parsing.ok

----------------------------------------------------------------------------
----------------------------------------------------------------------------
\* The array literals that lie in no other array literal.
OutermostArrays ==
    {Paths[i].node : i \in {j \in DOMAIN Paths :
        /\ Paths[j].node.type = "ArrayExpression"
        /\ \A a \in DOMAIN Paths[j].ancestors :
                Paths[j].ancestors[a].type # "ArrayExpression"}}

\* The object properties of the object elements of array literal a.
StageProperties(a) ==
    UNION {{a.elements[e].properties[p] : p \in DOMAIN a.elements[e].properties} :
            e \in {x \in DOMAIN a.elements : a.elements[x].type = "ObjectExpression"}}

\* The keys of the top-level stage properties whose value holds the cursor.
StageKeysAtCursor ==
    {item.key.name : item \in
        {q \in UNION {StageProperties(a) : a \in OutermostArrays} :
            /\ q.type = "ObjectProperty"
            /\ q.key.type = "Identifier"
            /\ HoldsSentinel(q.value)}}

\* C3 as stated: a non-null stageOperator is the key of the top-level stage
\* property (a property of an object that is a direct element of the
\* pipeline array) whose value holds the cursor, however deep the cursor is
\* nested, also inside nested arrays; never an inner or a sibling key.
C3_StageOperatorIsTopLevelStage ==
    (Returned /\ Parsing.ok /\ Result.stageOperator # null) =>
        Result.stageOperator \in StageKeysAtCursor

----------------------------------------------------------------------------
\* The cursor is in line 0 of document text, at one of the characters cs.
AtOneOf(text, cs) ==
    /\ call.textFromEditor = text
    /\ call.position.line = 0
    /\ call.position.character \in cs

\* The cursor positions inside the value object of $match, between its
\* braces: {qty: {$gt: 5}} starts at character 30 and ends at 45.
InMatchValue == 31..44

----------------------------------------------------------------------------
\* The calls use('<string>') of a program: callee use, one string literal.
UseCalls(ast) ==
    LET ps == Descendants(ast, <<>>)
    IN  {ps[i].node : i \in {j \in DOMAIN ps :
            /\ ps[j].node.type = "CallExpression"
            /\ ps[j].node.callee.type = "Identifier"
            /\ ps[j].node.callee.name = S_use
            /\ Len(ps[j].node.arguments) = 1
            /\ ps[j].node.arguments[1].type = "StringLiteral"}}

\* Node n ends at or before position pos (zero-based line and character).
EndsAtOrBefore(n, pos) ==
    \/ n.loc.end.line - 1 < pos.line
    \/ n.loc.end.line - 1 = pos.line /\ n.loc.end.column <= pos.character

\* The argument of the last use('<string>') call of ast, in document order,
\* that ends at or before pos; null if there is none.
LastUseBefore(ast, pos) ==
    LET S == {n \in UseCalls(ast) : EndsAtOrBefore(n, pos)}
    IN  IF S = {} THEN null
        ELSE (CHOOSE n \in S : \A m \in S : m.start <= n.start).arguments[1].value

\* C5: whenever the injected text parses, databaseName is the string
\* argument of the last use('<string>') call in document order that ends at
\* or before the cursor, or null if there is none; a use call that ends
\* after the cursor, or holds it, is never attributed.  This holds for the
\* calls of the parsed text and, where the document itself parses, for the
\* calls of the document.  A call use(`t`) with a template literal is no
\* use('<string>') call: its argument is not a StringLiteral.
C5_DatabaseNameIsLastUseBeforeCursor ==
    (Returned /\ Parsing.ok) =>
        /\ Result.databaseName = LastUseBefore(Parsing.ast, call.position)
        /\ Document.ok =>
              Result.databaseName = LastUseBefore(Document.ast, call.position)

\* A call has returned "b" with the cursor on the third line of the
\* five-line document: two use calls end before it, two start after it.
C5_Witness ==
    /\ Returned /\ Parsing.ok /\ At(Doc_useLines, 2, 0)
    /\ Result.databaseName = S_b
    /\ \E n \in UseCalls(Parsing.ast) : ~EndsAtOrBefore(n, call.position)

----------------------------------------------------------------------------
\* In use('a'); db.x.find(); use('b'); db.y.find(); the call use('a') ends
\* at character 8, use('b') starts at 23 and ends at 31.
BetweenUses == 8..23

\* C6 as stated: in use('a'); db.x.find(); use('b'); db.y.find(); every
\* cursor position between the end of use('a') and the start of use('b')
\* gives databaseName = "a", and every position after the end of use('b')
\* gives "b".
C6_Original ==
    (Returned /\ call.textFromEditor = Doc_useTwice /\ call.position.line = 0) =>
        LET c == call.position.character IN
        /\ c \in BetweenUses => Result.databaseName = S_a
        /\ c >= 31 => Result.databaseName = S_b

\* C6 amended: the same, at the positions where the injected text parses;
\* at characters 8, 9, 21 and 22 (between the calls) and 31, 32 and 44
\* (after them) the sentinel follows a closing parenthesis or precedes an
\* expression after a blank, the text does not parse, and databaseName is
\* null.
C6_UseTwice ==
    (Returned /\ call.textFromEditor = Doc_useTwice /\ call.position.line = 0) =>
        LET c == call.position.character IN
        /\ c \in BetweenUses =>
              /\ Parsing.ok <=> c \notin {8, 9, 21, 22}
              /\ Result.databaseName = IF c \in {8, 9, 21, 22} THEN null ELSE S_a
        /\ c >= 31 =>
              /\ Parsing.ok <=> c \notin {31, 32, 44}
              /\ Result.databaseName = IF c \in {31, 32, 44} THEN null ELSE S_b

\* The call has returned "a" for a cursor inside db.x.find(), and the call
\* use('b') that follows is still a use call of the parsed text.
C6_Witness ==
    /\ Returned /\ At(Doc_useTwice, 0, 13) /\ Result.databaseName = S_a
    /\ \E n \in UseCalls(Parsing.ast) : n.arguments[1].value = S_b

----------------------------------------------------------------------------
\* The names of the accessors of root in the subtree of n: root.NAME,
\* root['NAME'] and root.accessor('NAME').
AccessorNames(n, root, accessor) ==
    LET ps == Descendants(n, <<>>)
        ns == {ps[i].node : i \in DOMAIN ps}
        members == {m \in ns :
            /\ m.type = "MemberExpression"
            /\ m.object.type = "Identifier"
            /\ m.object.name = root}
        calls == {c \in ns :
            /\ c.type = "CallExpression"
            /\ c.callee \in members
            /\ c.callee.property.type = "Identifier"
            /\ c.callee.property.name = accessor
            /\ Len(c.arguments) = 1
            /\ c.arguments[1].type = "StringLiteral"}
    IN  {m.property.name : m \in {x \in members :
                x.property.type = "Identifier" /\ x.property.name # accessor}}
        \cup {m.property.value : m \in {x \in members :
                x.property.type = "StringLiteral"}}
        \cup {c.arguments[1].value : c \in calls}

\* C7 as stated: collectionName (streamProcessorName) is the name of the
\* collection (stream processor) accessor that encloses the cursor; an
\* access in another statement of the document never determines it.
C7_NameIsOfCursorStatement ==
    (Returned /\ Parsing.ok) =>
        /\ Result.collectionName # null =>
              \E s \in CursorStatements :
                  Result.collectionName \in AccessorNames(s, S_db, S_getCollection)
        /\ Result.streamProcessorName # null =>
              \E s \in CursorStatements :
                  Result.streamProcessorName \in AccessorNames(s, S_sp, S_getProcessor)

----------------------------------------------------------------------------
RECURSIVE RootOf(_)
\* The root object of a chain of member accesses and calls.
RootOf(n) ==
    IF n.type = "MemberExpression" THEN RootOf(n.object)
    ELSE IF n.type = "CallExpression" THEN RootOf(n.callee)
    ELSE n

\* The statement s is a member access whose root object is identifier root.
IsMemberAccessRootedAt(s, root) ==
    /\ s.type = "ExpressionStatement"
    /\ s.expression.type = "MemberExpression"
    /\ RootOf(s.expression).type = "Identifier"
    /\ RootOf(s.expression).name = root

\* C8 as stated: isDbSymbol (isSpSymbol) is true only if the expression
\* statement that holds the cursor is a member access whose root object is
\* the identifier db (sp); a statement elsewhere never sets these flags.
C8_SymbolIsOfCursorStatement ==
    (Returned /\ Parsing.ok) =>
        /\ Result.isDbSymbol = TRUE =>
              \E s \in CursorStatements : IsMemberAccessRootedAt(s, S_db)
        /\ Result.isSpSymbol = TRUE =>
              \E s \in CursorStatements : IsMemberAccessRootedAt(s, S_sp)

----------------------------------------------------------------------------
\* The forms of naming a collection or a stream processor NAME: the
\* document, the character where NAME starts, the root, and whether the
\* form is a member access (root.NAME, root['NAME']) or an accessor call.
NamingForms ==
    {[text |-> Doc_dbName, nameAt |-> 3, root |-> "db", member |-> TRUE],
     [text |-> Doc_dbBracket, nameAt |-> 4, root |-> "db", member |-> TRUE],
     [text |-> Doc_dbGetString, nameAt |-> 18, root |-> "db", member |-> FALSE],
     [text |-> Doc_dbGetTemplate, nameAt |-> 18, root |-> "db", member |-> FALSE],
     [text |-> Doc_spName, nameAt |-> 3, root |-> "sp", member |-> TRUE],
     [text |-> Doc_spBracket, nameAt |-> 4, root |-> "sp", member |-> TRUE],
     [text |-> Doc_spGetString, nameAt |-> 17, root |-> "sp", member |-> FALSE],
     [text |-> Doc_spGetTemplate, nameAt |-> 17, root |-> "sp", member |-> FALSE]}

\* The cursor positions in NAME: before each of its letters and after it.
InName == 0..4

\* The call is for form f with the cursor k characters into NAME.
AtName(f, k) == At(f.text, 0, f.nameAt + k)

\* C9 as stated: with the cursor in the name, the forms root.NAME,
\* root['NAME'] and root.accessor('NAME') (string or template argument)
\* of one root return states that are equal field by field.
C9_Original ==
    \A f \in NamingForms : \A k \in InName :
        (Returned /\ AtName(f, k)) =>
            \A g \in NamingForms :
                g.root = f.root =>
                    Completion(g.text, [line |-> 0, character |-> g.nameAt + k])
                        = Result

\* The state a naming form returns: the defaults with isCollectionName
\* (isStreamProcessorName) true and, for the member forms only, isDbSymbol
\* (isSpSymbol) true.
NamingState(f) ==
    LET nameFlag == IF f.root = "db" THEN "isCollectionName"
                    ELSE "isStreamProcessorName"
        rootFlag == IF f.root = "db" THEN "isDbSymbol" ELSE "isSpSymbol"
    IN  [x \in NameFields \cup FlagFields |->
            IF x \in NameFields THEN null
            ELSE x = nameFlag \/ (x = rootFlag /\ f.member)]

\* C9 amended: with the cursor in the name, all forms of one root set
\* isCollectionName (isStreamProcessorName) and agree on every field
\* except isDbSymbol (isSpSymbol), which root.NAME and root['NAME'] set
\* and root.accessor('NAME') leaves false; every other field is default.
C9_NamingForms ==
    \A f \in NamingForms : \A k \in InName :
        (Returned /\ AtName(f, k)) => Result = NamingState(f)

\* The call for db.getCollection(`NAME`) with the cursor inside NAME has
\* returned with isCollectionName set.
C9_Witness ==
    /\ Returned /\ Parsing.ok /\ At(Doc_dbGetTemplate, 0, 20)
    /\ Result.isCollectionName = TRUE

----------------------------------------------------------------------------
\* The sentinel lies inside a string literal or a template literal.
SentinelInText ==
    \E n \in Nodes :
        \/ n.type = "StringLiteral" /\ includes(n.value, PLACEHOLDER)
        \/ n.type = "TemplateElement" /\ includes(n.value.raw, PLACEHOLDER)

StructuralFlags ==
    {"isObjectKey", "isIdentifierObjectValue", "isStage", "isGlobalSymbol",
     "isDbSymbol", "isSpSymbol", "isCollectionSymbol", "isStreamProcessorSymbol",
     "isAggregationCursor", "isFindCursor"}

\* C10 as stated: when the sentinel lies inside a string or template
\* literal, every structural flag stays false and stageOperator stays null;
\* only isTextObjectValue, isUseCallExpression, isCollectionName and
\* isStreamProcessorName can be true.
C10_OnlyValueFlagsInText ==
    (Returned /\ Parsing.ok /\ SentinelInText) =>
        /\ \A f \in StructuralFlags : Result[f] = FALSE
        /\ Result.stageOperator = null

----------------------------------------------------------------------------
(* What the claims about parseASTForDiagnostics speak about *)

\* A call of parseASTForDiagnostics has returned.
DiagnosticsReturned ==
    call.op = "parseASTForDiagnostics" /\ call.status = "returned"

\* The parser model covers every document parseASTForDiagnostics is given.
DiagnosticsInSubset ==
    DiagnosticsReturned => (Document.ok \/ Document.why = "syntax")

\* The paths of the nodes of the parsed document.
DocumentPaths == Descendants(Document.ast, <<>>)

\* The paths of the document's nodes of one type.
PathsOfType(type) ==
    LET selected == SelectSeq(DocumentPaths, LAMBDA p : p.node.type = type)
    IN  {selected[i] : i \in DOMAIN selected}

\* The document's nodes of one type.
NodesOfType(type) == {p.node : p \in PathsOfType(type)}

\* The elements of a list of references.
Elements(refs) == {refs[k] : k \in DOMAIN refs}

\* C11 as stated: whatever the text and the zero-based position, also a
\* line that the text does not have or a character past the end of the
\* line, parseASTForCompletion raises no exception: no call ends by
\* throwing.
C11_NeverThrows ==
    call.op = "parseASTForCompletion" => call.status # "threw"

S_shop == <<"s", "h", "o", "p">>
S_orders == <<"o", "r", "d", "e", "r", "s">>
S_status == <<"s", "t", "a", "t", "u", "s">>

\* C12: for use('shop'); db.orders.find({status: 'A'}) the call returns
\* exactly one collection reference (orders, database shop), exactly one
\* field reference (status, context find, collection orders), exactly one
\* method reference (find, target collection) and databaseName shop.
C12_ShopReferences ==
    (DiagnosticsReturned /\ call.textFromEditor = Doc_shop) =>
        /\ Len(Result.collections) = 1
        /\ Result.collections[1].collectionName = S_orders
        /\ Result.collections[1].databaseName = S_shop
        /\ Len(Result.fields) = 1
        /\ Result.fields[1].fieldName = S_status
        /\ Result.fields[1].context = "find"
        /\ Result.fields[1].collectionName = S_orders
        /\ Len(Result.methods) = 1
        /\ Result.methods[1].method = S_find
        /\ Result.methods[1].target = "collection"
        /\ Result.databaseName = S_shop

\* The call for use('shop'); db.orders.find({status: 'A'}) has returned
\* and the document parsed.
C12_Witness ==
    DiagnosticsReturned /\ call.textFromEditor = Doc_shop /\ Document.ok

\* The name an object property is written with: the identifier or the
\* quoted string of its key (null for a computed or a numeric key).
KeyName(property) ==
    IF property.key.type = "Identifier" /\ ~property.computed
    THEN property.key.name
    ELSE IF property.key.type = "StringLiteral" /\ ~property.computed
    THEN property.key.value
    ELSE null

\* The positions, among the ancestors of a path, of the nodes of one type.
AncestorsOfType(path, type) ==
    {i \in DOMAIN path.ancestors : path.ancestors[i].type = type}

\* The smallest element of a non-empty set of numbers.
Min(S) == CHOOSE i \in S : \A j \in S : i <= j
\* The largest element of a non-empty set of numbers.
Max(S) == CHOOSE i \in S : \A j \in S : i >= j

\* The object literals crossed from the key at path up to its nearest
\* enclosing array.
ObjectsCrossed(path) ==
    Cardinality({i \in AncestorsOfType(path, "ObjectExpression") :
                    i < Min(AncestorsOfType(path, "ArrayExpression"))})

\* Some enclosing object property has the key of an expression stage.
InExpressionStage(path) ==
    \E i \in AncestorsOfType(path, "ObjectProperty") :
        KeyName(path.ancestors[i]) \in ExpressionStages

\* The context C13 gives to the operator key at path.
StatedOperatorContext(path) ==
    IF AncestorsOfType(path, "ArrayExpression") # {}
    THEN IF ObjectsCrossed(path) = 1 THEN "stage"
         ELSE IF InExpressionStage(path) THEN "aggregation"
         ELSE "query"
    ELSE IF AncestorsOfType(path, "ObjectProperty") # {} THEN "query"
    ELSE "other"

\* The object properties of the document that a reference, by its
\* location, is the reference of.
PropertiesAt(ref) ==
    {p \in PathsOfType("ObjectProperty") : Location(p.node) = ref.location}

\* C13 as stated: every operator reference has the context of its key: with
\* an enclosing array, stage when one object literal lies between the key
\* and the nearest enclosing array, else aggregation when some enclosing
\* object property key is one of $group, $project, $addFields, $set,
\* $bucket, $bucketAuto, $facet, $setWindowFields, else query; without an
\* enclosing array, query under an enclosing object property, else other.
\* In db.orders.aggregate([{$match: {qty: {$gt: 5}}}]), $match is a stage
\* operator and $gt a query operator.
C13_OperatorContexts ==
    (DiagnosticsReturned /\ Document.ok) =>
        /\ \A ref \in Elements(Result.operators) :
            /\ PropertiesAt(ref) # {}
            /\ \A p \in PropertiesAt(ref) :
                ref.context = StatedOperatorContext(p)
        /\ call.textFromEditor = Doc_match =>
            /\ Len(Result.operators) = 2
            /\ Result.operators[1].operator = S_match
            /\ Result.operators[1].context = "stage"
            /\ Result.operators[2].context = "query"

\* The context C14 gives to the field key at path: that of the callee of
\* the nearest enclosing call.
StatedFieldContext(path) ==
    LET calls == AncestorsOfType(path, "CallExpression")
        callee == path.ancestors[Min(calls)].callee
        name == IF callee.type = "MemberExpression"
                    /\ callee.property.type = "Identifier"
                THEN callee.property.name ELSE null
    IN  IF calls = {} THEN "other"
        ELSE IF name \in {S_find, S_findOne} THEN "find"
        ELSE IF name = S_aggregate THEN "aggregate"
        ELSE IF name \in {S_update, S_updateOne, S_updateMany, S_replaceOne}
             THEN "update"
        ELSE "other"

S_h == <<"h">>
S_g == <<"g">>
S_e == <<"e">>
S_d == <<"d">>

IsDb(node) == node.type = "Identifier" /\ node.name = S_db

\* The member access at path is the callee of the call that is its parent.
DirectCallee(path) ==
    /\ path.ancestors[1].type = "CallExpression"
    /\ path.ancestors[1].callee = path.node

\* The member accesses of the document that C15 gives a method reference:
\* called directly, on db or on a member access of db.
MethodCalls ==
    {p \in PathsOfType("MemberExpression") :
        /\ DirectCallee(p)
        /\ p.node.property.type = "Identifier"
        /\ \/ IsDb(p.node.object)
           \/ /\ p.node.object.type = "MemberExpression"
              /\ IsDb(p.node.object.object)}

\* The method references C15 states for the document.
StatedMethods ==
    {[method |-> p.node.property.name,
      target |-> IF IsDb(p.node.object) THEN "db" ELSE "collection",
      location |-> Location(p.node)] : p \in MethodCalls}

S_stats == <<"s", "t", "a", "t", "s">>
S_count == <<"c", "o", "u", "n", "t">>

DocumentUseCalls ==
    {n \in NodesOfType("CallExpression") :
        /\ n.callee.type = "Identifier" /\ n.callee.name = S_use
        /\ Len(n.arguments) = 1
        /\ n.arguments[1].type = "StringLiteral"}

\* The accesses db.<name> and db['<name>'] of the document.
DocumentDbAccesses ==
    {n \in NodesOfType("MemberExpression") :
        /\ IsDb(n.object)
        /\ \/ n.property.type = "Identifier" /\ ~n.computed
           \/ n.property.type = "StringLiteral" /\ n.computed}

\* The name of an access db.<name> or db['<name>'].
AccessName(n) ==
    IF n.property.type = "Identifier" THEN n.property.name
    ELSE n.property.value

\* The nodes of S that begin before an offset of the text.
Preceding(S, offset) == {n \in S : n.start < offset}

\* The node of a non-empty set of nodes that begins last.
Latest(S) == CHOOSE n \in S : \A m \in S : m.start <= n.start

\* The argument of the most recent use call before an offset, or null.
UsedBefore(offset) ==
    IF Preceding(DocumentUseCalls, offset) = {} THEN null
    ELSE Latest(Preceding(DocumentUseCalls, offset)).arguments[1].value

\* The name of the most recent db access before an offset, or null.
AccessedBefore(offset) ==
    IF Preceding(DocumentDbAccesses, offset) = {} THEN null
    ELSE AccessName(Latest(Preceding(DocumentDbAccesses, offset)))

\* The member accesses of the document that a reference, by its location,
\* is the reference of.
MembersAt(ref) ==
    {p \in PathsOfType("MemberExpression") : Location(p.node) = ref.location}

S_f == <<"f">>
S_x == <<"x">>
S_y == <<"y">>
S_z == <<"z">>
S_q == <<"q">>
S_r == <<"r">>

OperatorsAt(p) ==
    {k \in DOMAIN Result.operators :
        Result.operators[k].location = Location(p.node)}
FieldsAt(p) ==
    {k \in DOMAIN Result.fields :
        Result.fields[k].location = Location(p.node)}

\* The object property at p, with a bare or quoted key, has exactly one
\* reference: an operator reference when the name starts with $, a field
\* reference otherwise.
OneReference(p) ==
    IF startsWith(KeyName(p.node), <<"$">>)
    THEN /\ Cardinality(OperatorsAt(p)) = 1 /\ FieldsAt(p) = {}
         /\ \A k \in OperatorsAt(p) :
                Result.operators[k].operator = KeyName(p.node)
    ELSE /\ Cardinality(FieldsAt(p)) = 1 /\ OperatorsAt(p) = {}
         /\ \A k \in FieldsAt(p) :
                Result.fields[k].fieldName = KeyName(p.node)

\* The object property at p, with a computed key [identifier], is not
\* recorded as a field named after the identifier.
NotNamedAfterIdentifier(p) ==
    (p.node.computed /\ p.node.key.type = "Identifier") =>
        \A k \in FieldsAt(p) : Result.fields[k].fieldName # p.node.key.name

\* C17 as stated: every object-literal property key, a bare identifier or
\* a quoted string, yields exactly one reference, an operator reference
\* when its name starts with $ and a field reference otherwise; a computed
\* key {[expr]: v} is not recorded as a field named after the identifier
\* in the brackets.
C17_EveryKeyOneReference ==
    (DiagnosticsReturned /\ Document.ok) =>
        \A p \in PathsOfType("ObjectProperty") :
            IF KeyName(p.node) # null THEN OneReference(p)
            ELSE NotNamedAfterIdentifier(p)

\* C18: for every text that fails to parse, parseASTForDiagnostics
\* returns the all-empty result, four empty lists and the databaseName
\* null, never a partial one, and it does not throw.
C18_ParseFailureReturnsEmpty ==
    (call.op = "parseASTForDiagnostics" /\ call.status # "called"
        /\ ~Document.ok) =>
        /\ call.status = "returned"
        /\ Result = [collections |-> <<>>, fields |-> <<>>, operators |-> <<>>,
                     methods |-> <<>>, databaseName |-> null]

\* The call for use('shop'); db.orders.find({status: ) has returned; the
\* text does not parse.
C18_Witness ==
    DiagnosticsReturned /\ call.textFromEditor = Doc_broken /\ ~Document.ok

\* The locations of all the references of the result.
Locations ==
    {ref.location : ref \in Elements(Result.collections)}
        \cup {ref.location : ref \in Elements(Result.fields)}
        \cup {ref.location : ref \in Elements(Result.operators)}
        \cup {ref.location : ref \in Elements(Result.methods)}

\* The parser's locations (1-based lines) of the member accesses and the
\* object properties of the document.
ParserLocations ==
    {n.loc : n \in NodesOfType("MemberExpression")}
        \cup {n.loc : n \in NodesOfType("ObjectProperty")}

\* Position a is not after position b, by line and then by character.
NotAfter(a, b) ==
    a.line < b.line \/ (a.line = b.line /\ a.character <= b.character)

\* C19: every location of the result has as start.line and end.line the
\* parser's 1-based line minus one, never negative, as character the
\* parser's column unchanged, and a start that is not after its end.
C19_LocationsAreZeroBased ==
    (DiagnosticsReturned /\ Document.ok) =>
        \A l \in Locations :
            /\ l.start.line >= 0 /\ l.end.line >= 0
            /\ NotAfter(l.start, l.end)
            /\ \E loc \in ParserLocations :
                /\ l.start.line = loc.start.line - 1
                /\ l.start.character = loc.start.column
                /\ l.end.line = loc.end.line - 1
                /\ l.end.character = loc.end.column

\* The call for the five-line document that ends with db.z has returned:
\* the collection z, on the parser's line 5, is at line 4, characters 0 to
\* 4, and the field f, on the parser's line 2, at line 1, characters 11
\* to 15.
C19_Witness ==
    /\ DiagnosticsReturned /\ call.textFromEditor = Doc_keys
    /\ \E ref \in Elements(Result.collections) :
        /\ ref.collectionName = S_z
        /\ ref.location = [start |-> [line |-> 4, character |-> 0],
                           end |-> [line |-> 4, character |-> 4]]
    /\ \E ref \in Elements(Result.fields) :
        /\ ref.fieldName = S_f
        /\ ref.location = [start |-> [line |-> 1, character |-> 11],
                           end |-> [line |-> 1, character |-> 15]]

----------------------------------------------------------------------------
(* Calls that follow one another on one Visitor *)

\* The state of a call that found nothing: every name null, every flag
\* false.
FreshState ==
    [x \in NameFields \cup FlagFields |-> IF x \in NameFields THEN null ELSE FALSE]

\* What parseASTForCompletion(text, position) returns on a new Visitor.
FreshCompletion(text, position) ==
    parseAST(FreshState, _handleTriggerCharacter(text, position).text,
             [start |-> position, end |-> [line |-> 0, character |-> 0]])

\* C20: whatever calls of parseASTForCompletion and parseASTForDiagnostics
\* were made before on the same Visitor, parseASTForCompletion(T, P)
\* returns what it returns on a new Visitor, and parseASTForDiagnostics(T)
\* returns the references of T alone, so that two calls on the same text
\* return equal results: no call leaves a trace for the next.
C20_NoStateLeaksBetweenCalls ==
    /\ Returned =>
        Result = FreshCompletion(call.textFromEditor, call.position)
    /\ DiagnosticsReturned =>
        Result = parseASTForDiagnostics(call.textFromEditor)

\* A call of parseASTForCompletion has returned the state of a call that
\* found nothing, after an earlier call of parseASTForCompletion on the
\* same Visitor.
C20_Witness ==
    /\ Returned
    /\ call.after = "parseASTForCompletion"
    /\ Result = FreshState

-----------------------------------------------------------------------------
(* Claims about the references of one member access *)

\* C30 as stated: in the result of parseASTForDiagnostics no member access
\* is recorded both as a collection reference and as a method reference:
\* no collection reference has the location of a method reference, so
\* db.getCollection('o') or db.stats() yields a method reference with
\* target db and no collection reference named after the method.
C30_NoAccessIsBothCollectionAndMethod ==
    DiagnosticsReturned =>
        \A c \in Elements(Result.collections) :
            \A m \in Elements(Result.methods) :
                ~(c.location = m.location /\ c.collectionName = m.method)

-----------------------------------------------------------------------------
(* Claims about the insertion of the sentinel *)

\* The lines of the document of the call.
DocumentLines == split(call.textFromEditor)

\* The position of the call is on an existing line of the document and at
\* most at the end of that line.
ValidPosition ==
    /\ call.op = "parseASTForCompletion"
    /\ call.position.line + 1 <= Len(DocumentLines)
    /\ call.position.character <= Len(DocumentLines[call.position.line + 1])

\* The offset of the position of the call in the document.
OffsetOfPosition ==
    LET before == SubSeq(DocumentLines, 1, call.position.line)
    IN  Len(join(before)) + (IF call.position.line > 0 THEN 1 ELSE 0)
        + call.position.character

\* C25: for a position on an existing line and with 0 <= character <=
\* length of that line, _handleTriggerCharacter returns the text with the
\* sentinel inserted at exactly offset character of that line: the number
\* of lines and every other line are unchanged, the characters before and
\* after the position are unchanged, and deleting the sentinel gives back
\* the original text.
C25_SentinelAtThePosition ==
    ValidPosition =>
        LET r == _handleTriggerCharacter(call.textFromEditor, call.position)
            l == call.position.line + 1
            c == call.position.character
            n == Len(PLACEHOLDER)
            off == OffsetOfPosition
        IN  /\ ~r.threw
            /\ Len(split(r.text)) = Len(DocumentLines)
            /\ \A k \in 1..Len(DocumentLines) :
                  k # l => split(r.text)[k] = DocumentLines[k]
            /\ split(r.text)[l] =
                  SubSeq(DocumentLines[l], 1, c) \o PLACEHOLDER
                  \o SubSeq(DocumentLines[l], c + 1, Len(DocumentLines[l]))
            /\ SubSeq(r.text, off + 1, off + n) = PLACEHOLDER
            /\ SubSeq(r.text, 1, off) \o SubSeq(r.text, off + n + 1, Len(r.text))
                  = call.textFromEditor

\* A call has returned whose position is strictly inside a line that is
\* neither the first nor the last line of its document, and the text that
\* was parsed has the sentinel there.
C25_Witness ==
    /\ ValidPosition /\ call.status = "returned"
    /\ call.position.line > 0
    /\ call.position.line + 1 < Len(DocumentLines)
    /\ call.position.character > 0
    /\ call.position.character < Len(DocumentLines[call.position.line + 1])
    /\ SubSeq(Injected, OffsetOfPosition + 1,
              OffsetOfPosition + Len(PLACEHOLDER)) = PLACEHOLDER

-----------------------------------------------------------------------------
(* Claims about the object parseASTForCompletion returns *)

\* What the object that the last parseASTForCompletion returned holds now:
\* the content of _state while _state still refers to that object.
HeldNow == IF held.shared THEN _state ELSE held.result

\* C21 as stated: the object a parseASTForCompletion call returned is
\* never modified by a later call on the same Visitor, be it
\* parseASTForCompletion, the public parseAST or parseASTForDiagnostics:
\* it holds what it held when it was returned.
C21_ReturnedStateNeverModified ==
    HeldNow = held.result

-----------------------------------------------------------------------------
(* bin/server.js: the configuration the process starts with *)

\* f restricted to the keys S: an object that has those properties only.
Restrict(f, S) == [k \in S |-> f[k]]

\* 'mongodb://localhost:27017', the connection string when none is supplied.
DefaultUri == "mongodb://localhost:27017"

\* The connection strings the command line, the environment, the
\* configuration file, a didChangeConfiguration notification and a custom
\* request of the client supply.
CliUri == "mongodb://cli"
EnvUri == "mongodb://env"
FileUri == "mongodb://file"
LspUri == "mongodb://lsp"
ClientUri == "mongodb://client"

\* The path of the configuration file.
ConfigPath == "lsp.json"

\* A word of the command line: dashes says that it starts with "--", text
\* is the rest of it.
Flag(key) == [dashes |-> TRUE, text |-> key]
Word(text) == [dashes |-> FALSE, text |-> text]

RECURSIVE parseArgsFrom(_, _, _)
\* The loop of parseArgs from word i (1-based) on, args being the object
\* built so far.
parseArgsFrom(argv, i, args) ==
    IF i > Len(argv) THEN args
    ELSE IF ~argv[i].dashes THEN parseArgsFrom(argv, i + 1, args)
    ELSE IF argv[i].text \in {"help", "verbose", "stdio", "websocket", "ws"}
    THEN parseArgsFrom(argv, i + 1, (argv[i].text :> TRUE) @@ args)
    ELSE IF i + 1 <= Len(argv)
    THEN parseArgsFrom(argv, i + 2, (argv[i].text :> argv[i + 1].text) @@ args)
    ELSE parseArgsFrom(argv, i + 1, args)

\* parseArgs(process.argv.slice(2))
parseArgs(argv) == parseArgsFrom(argv, 1, <<>>)

\* let config = {connectionString: args['mongodb-uri'] ||
\*               process.env.MONGODB_URI || 'mongodb://localhost:27017',
\*               verbose: args.verbose || false};
\* config = {...config, ...fileConfig}   (fileConfig is {} without a file)
LoadedConfig(args, env, fileConfig) ==
    fileConfig @@
    [connectionString |->
        IF "mongodb-uri" \in DOMAIN args THEN args["mongodb-uri"]
        ELSE IF "MONGODB_URI" \in DOMAIN env THEN env["MONGODB_URI"]
        ELSE DefaultUri,
     verbose |-> IF "verbose" \in DOMAIN args THEN args["verbose"] ELSE FALSE]

\* const CONFIG_PATH = args.config || process.env.MONGODB_LSP_CONFIG
\* (the empty set when it is undefined)
CONFIG_PATH(args, env) ==
    IF "config" \in DOMAIN args THEN {args["config"]}
    ELSE IF "MONGODB_LSP_CONFIG" \in DOMAIN env THEN {env["MONGODB_LSP_CONFIG"]}
    ELSE {}

\* The top of bin/server.js, up to the choice of the mode: the command
\* line is parsed and the configuration loaded; a configuration file that
\* is not JSON ends the process.
LoadConfiguration ==
    /\ pc = "start"
    /\ LET args == parseArgs(process.argv)
           found == CONFIG_PATH(args, process.env) \cap DOMAIN process.files
       IN  IF found = {}
           THEN /\ config' = LoadedConfig(args, process.env, <<>>)
                /\ pc' = "loaded"
           ELSE LET file == process.files[CHOOSE path \in found : TRUE] IN
                IF file.json
                THEN /\ config' = LoadedConfig(args, process.env, file.value)
                     /\ pc' = "loaded"
                ELSE /\ pc' = "exited"
                     /\ UNCHANGED config
    /\ UNCHANGED <<process, connectionCount, clients, event>>
    /\ UNCHANGED visitorVars

-----------------------------------------------------------------------------
(* bin/server.js: startLanguageServer, one closure per connection *)

\* The variable mongoDBService while it is undefined.
Undefined ==
    [defined |-> FALSE, connection |-> 0, instance |-> 0, given |-> <<>>,
     fields |-> <<>>]

\* new MongoDBService(connection): the instance-th one made for the
\* connection.  given is the argument of the last initialize or
\* activeConnectionChanged call on it, fields its cache of field names.
NewMongoDBService(connection, instance) ==
    [defined |-> TRUE, connection |-> connection, instance |-> instance,
     given |-> <<>>, fields |-> <<>>]

\* The local variables of startLanguageServer(connection, config, clientId)
\* before any message: connection is the position of the connection among
\* the connections of the process, created counts the MongoDBService
\* objects constructed in this closure, and initialized says that the
\* client has sent its initialized notification.
startLanguageServer(connection, cfg, clientId) ==
    [connection |-> connection, clientId |-> clientId,
     documents |-> <<>>, mongoDBService |-> Undefined,
     hasConfigurationCapability |-> FALSE,
     activeConfig |-> cfg, created |-> 0, initialized |-> FALSE]

\* The record of one call of a method of a MongoDBService.
Called(service, method, args) ==
    [connection |-> service.connection, instance |-> service.instance,
     method |-> method, args |-> args]

\* A variant of ConnectionIdOf: every WebSocket client is client-1.
ConnectionIdOf_first(clientId) ==
    IF clientId.type = "string" THEN clientId.value ELSE "client-1"

\* typeof clientId === 'string' ? clientId : `client-${clientId}`
ConnectionIdOf(clientId) ==
    IF clientId.type = "string" THEN clientId.value
    ELSE "client-" \o ToString(clientId.value)

\* A variant of initializeMongoDBService: initialize is called without
\* looking whether mongoDBService is defined.
initializeMongoDBService_unguarded(client, cfg) ==
    LET initConfig ==
            [connectionId |-> ConnectionIdOf(client.clientId),
             connectionString |-> cfg.connectionString]
    IN  [client |-> [client EXCEPT !.mongoDBService.given = initConfig],
         calls |-> <<Called(client.mongoDBService, "initialize", initConfig)>>]

\* function initializeMongoDBService(cfg): nothing while mongoDBService is
\* undefined, else mongoDBService.initialize(initConfig).  The result is
\* the closure it leaves and the calls it made.
initializeMongoDBService(client, cfg) ==
    IF ~client.mongoDBService.defined
    THEN [client |-> client, calls |-> <<>>]
    ELSE LET initConfig ==
                [connectionId |-> ConnectionIdOf(client.clientId),
                 connectionString |-> cfg.connectionString]
         IN  [client |-> [client EXCEPT !.mongoDBService.given = initConfig],
              calls |-> <<Called(client.mongoDBService, "initialize",
                                 initConfig)>>]

\* The process serves connections with the handlers of bin/server.js.
Serving == pc \in {"stdio", "websocket"}

\* startStdioServer(config): one connection, whose clientId is 'stdio'.
StartStdioServer ==
    /\ pc = "loaded"
    /\ "websocket" \notin DOMAIN parseArgs(process.argv)
    /\ "ws" \notin DOMAIN parseArgs(process.argv)
    /\ pc' = "stdio"
    /\ clients' = <<startLanguageServer(1, config,
                                        [type |-> "string", value |-> "stdio"])>>
    /\ UNCHANGED <<process, config, connectionCount, event>>
    /\ UNCHANGED visitorVars

\* startWebSocketServer(config), up to wss.on('connection', ...).
StartWebSocketServer ==
    /\ pc = "loaded"
    /\ \/ "websocket" \in DOMAIN parseArgs(process.argv)
       \/ "ws" \in DOMAIN parseArgs(process.argv)
    /\ pc' = "websocket"
    /\ connectionCount' = 0
    /\ UNCHANGED <<process, config, clients, event>>
    /\ UNCHANGED visitorVars

\* How many connections the WebSocket server accepts.
MaxConnections == 2

\* wss.on('connection'): connectionCount++, clientId = connectionCount,
\* startLanguageServer(serverConnection, config, clientId).
Connection ==
    /\ pc = "websocket"
    /\ connectionCount < MaxConnections
    /\ connectionCount' = connectionCount + 1
    /\ clients' = Append(clients,
                         startLanguageServer(Len(clients) + 1, config,
                                             [type |-> "number",
                                              value |-> connectionCount']))
    /\ UNCHANGED <<pc, process, config, event>>
    /\ UNCHANGED visitorVars

-----------------------------------------------------------------------------
(* bin/server.js: the handlers of one connection *)

\* What the messages of a client carry: the settings of a
\* didChangeConfiguration notification (each property may be missing),
\* the settings of INITIALIZE_MONGODB_SERVICE and the parameters of
\* ACTIVE_CONNECTION_CHANGED, the documents, a namespace with its fields,
\* and the selectors of CLEAR_CACHED_COMPLETIONS.
ChangedSettings ==
    {Restrict([connectionString |-> LspUri, verbose |-> v], S) :
        v \in BOOLEAN, S \in SUBSET {"connectionString", "verbose"}}

ConnectionSettings ==
    {[connectionId |-> "production", connectionString |-> ClientUri]}

Uris == {"file:///playground.mongodb"}

Texts == {Doc_dbDot, Doc_dbName}

Namespaces == {"shop.orders"}

SchemaFields == {<<"status">>, <<"status", "total">>}

ClearSelectors ==
    {[databases |-> FALSE, collections |-> k, fields |-> f] :
        k \in BOOLEAN, f \in BOOLEAN}

\* The message the client of connection c sent has been handled.
Handled(c, kind, params, reply, calls, sent) ==
    [client |-> c, kind |-> kind, params |-> params, reply |-> reply,
     calls |-> calls, sent |-> sent]

\* The closure of connection c becomes client, the others stay.
Closure(c, client) == [clients EXCEPT ![c] = client]

\* The field names the database has for a namespace: what a lookup by
\* the collaborator finds.
CatalogFields == <<"status", "qty">>

\* MongoDBService.cacheFields(namespace, schemaFields): the cache entry of
\* the namespace is set.
cacheFields(service, namespace, schemaFields) ==
    [service EXCEPT !.fields = (namespace :> schemaFields) @@ @]

\* A variant of clearCachedCompletions: the cache of field names is kept.
clearCachedCompletions_keeps(service, clear) == service

\* MongoDBService.clearCachedCompletions(clear): the cache of field names
\* is emptied when clear.fields is set.
clearCachedCompletions(service, clear) ==
    IF clear.fields THEN [service EXCEPT !.fields = <<>>] ELSE service

\* MongoDBService.activeConnectionChanged(params): the service takes the
\* new connection, and the caches of the old one are emptied.
activeConnectionChanged(service, params) ==
    [service EXCEPT !.given = params, !.fields = <<>>]

\* The lookup of the field names of a namespace: the cached list if the
\* cache has an entry, else the list a lookup by the collaborator finds,
\* which is cached before it is returned.
lookupNamespaceCatalog(service, namespace) ==
    IF namespace \in DOMAIN service.fields
    THEN [service |-> service, lookedUp |-> FALSE,
          fields |-> service.fields[namespace]]
    ELSE [service |-> cacheFields(service, namespace, CatalogFields),
          lookedUp |-> TRUE, fields |-> CatalogFields]

\* MongoDBService.provideCompletionItems({document, position}) for a
\* cursor in a namespace: the field names of the namespace are looked up.
\* The result is the service it leaves and the calls made.
provideCompletionItems(service, documentsOf, documents, uri, namespace) ==
    LET found == lookupNamespaceCatalog(service, namespace) IN
    [service |-> found.service,
     calls |-> <<Called(service, "provideCompletionItems",
                        [documentsOf |-> documentsOf,
                         document |-> Restrict(documents,
                                               {uri} \cap DOMAIN documents)]),
                 Called(service, "lookupNamespaceCatalog",
                        [namespace |-> namespace,
                         lookedUp |-> found.lookedUp,
                         fields |-> found.fields])>>]

\* connection.onInitialize: the capability flag is set from the client's
\* capabilities, and the server's capabilities are returned.
OnInitialize ==
    /\ Serving
    /\ \E c \in DOMAIN clients : \E configuration \in BOOLEAN :
        /\ clients' = Closure(c, [clients[c] EXCEPT
                            !.hasConfigurationCapability = configuration])
        /\ event' = Handled(c, "initialize",
                            [configuration |-> configuration],
                            "capabilities", <<>>, <<>>)
    /\ UNCHANGED <<pc, process, config, connectionCount>>
    /\ UNCHANGED visitorVars

\* connection.onInitialized: a new MongoDBService is constructed and
\* assigned, MONGODB_SERVICE_CREATED is sent, and the service is
\* initialised with activeConfig.  (A client sends the initialized
\* notification once, at any time.)
OnInitialized ==
    /\ Serving
    /\ \E c \in DOMAIN clients :
        /\ ~clients[c].initialized
        /\ LET made == [clients[c] EXCEPT
                          !.mongoDBService =
                              NewMongoDBService(c, clients[c].created + 1),
                          !.created = @ + 1,
                          !.initialized = TRUE]
               done == initializeMongoDBService(made, made.activeConfig)
           IN  /\ clients' = Closure(c, done.client)
               /\ event' = Handled(c, "initialized", <<>>, "undefined",
                                   done.calls,
                                   <<[method |-> "MONGODB_SERVICE_CREATED"]>>)
    /\ UNCHANGED <<pc, process, config, connectionCount>>
    /\ UNCHANGED visitorVars

\* activeConfig = {...activeConfig,
\*   ...(settings.connectionString && {connectionString}),
\*   ...(settings.verbose !== undefined && {verbose})}
MergedConfig(activeConfig, settings) ==
    Restrict(settings, DOMAIN settings \cap {"connectionString", "verbose"})
        @@ activeConfig

\* connection.onDidChangeConfiguration: the settings are merged into
\* activeConfig and the service is initialised again with the result.
\* (documentSettings, which it clears, never gets an entry.)
OnDidChangeConfiguration ==
    /\ Serving
    /\ \E c \in DOMAIN clients : \E settings \in ChangedSettings :
        LET merged == [clients[c] EXCEPT
                          !.activeConfig = MergedConfig(@, settings)]
            done == initializeMongoDBService(merged, merged.activeConfig)
        IN  /\ clients' = Closure(c, done.client)
            /\ event' = Handled(c, "didChangeConfiguration", settings,
                                "undefined", done.calls, <<>>)
    /\ UNCHANGED <<pc, process, config, connectionCount>>
    /\ UNCHANGED visitorVars

\* A document is opened or changed: the document manager stores the text
\* and calls the onDidChangeContent handler, which returns at once while
\* mongoDBService is undefined, and else computes the diagnostics of the
\* text and sends them for the document's URI.
OnDidChangeContent ==
    /\ Serving
    /\ \E c \in DOMAIN clients : \E uri \in Uris : \E text \in Texts :
        LET service == clients[c].mongoDBService IN
        /\ clients' = Closure(c, [clients[c] EXCEPT
                                    !.documents = (uri :> text) @@ @])
        /\ event' =
            IF ~service.defined
            THEN Handled(c, "didChangeContent", [uri |-> uri, text |-> text],
                         "undefined", <<>>, <<>>)
            ELSE Handled(c, "didChangeContent", [uri |-> uri, text |-> text],
                         "undefined",
                         <<Called(service, "provideDiagnostics",
                                  [text |-> text])>>,
                         <<[method |-> "sendDiagnostics", uri |-> uri,
                            diagnosticsOf |-> text]>>)
    /\ UNCHANGED <<pc, process, config, connectionCount>>
    /\ UNCHANGED visitorVars

\* connection.onCompletion: [] while mongoDBService is undefined, else
\* what provideCompletionItems returns for the document of this
\* connection's document manager; namespace is the namespace the cursor
\* of the request stands in.
OnCompletion ==
    /\ Serving
    /\ \E c \in DOMAIN clients : \E uri \in Uris : \E namespace \in Namespaces :
        LET service == clients[c].mongoDBService
            done == provideCompletionItems(service, clients[c].connection,
                                           clients[c].documents, uri, namespace)
        IN  IF ~service.defined
            THEN /\ event' = Handled(c, "completion", [uri |-> uri], "[]",
                                     <<>>, <<>>)
                 /\ UNCHANGED clients
            ELSE /\ event' = Handled(c, "completion", [uri |-> uri],
                                     "provideCompletionItems", done.calls, <<>>)
                 /\ clients' = Closure(c, [clients[c] EXCEPT
                                             !.mongoDBService = done.service])
    /\ UNCHANGED <<pc, process, config, connectionCount>>
    /\ UNCHANGED visitorVars

\* EXECUTE_CODE_FROM_PLAYGROUND: null while mongoDBService is undefined,
\* else what evaluate returns.
OnExecuteCodeFromPlayground ==
    /\ Serving
    /\ \E c \in DOMAIN clients : \E text \in Texts :
        LET service == clients[c].mongoDBService IN
        /\ event' =
            IF ~service.defined
            THEN Handled(c, "EXECUTE_CODE_FROM_PLAYGROUND",
                         [codeToEvaluate |-> text], "null", <<>>, <<>>)
            ELSE Handled(c, "EXECUTE_CODE_FROM_PLAYGROUND",
                         [codeToEvaluate |-> text], "evaluate",
                         <<Called(service, "evaluate",
                                  [codeToEvaluate |-> text])>>, <<>>)
    /\ UNCHANGED <<pc, process, config, connectionCount, clients>>
    /\ UNCHANGED visitorVars

\* INITIALIZE_MONGODB_SERVICE: a MongoDBService is constructed if the
\* variable is undefined, and initialised with the client's settings.
OnInitializeMongoDBService ==
    /\ Serving
    /\ \E c \in DOMAIN clients : \E settings \in ConnectionSettings :
        LET made == IF clients[c].mongoDBService.defined THEN clients[c]
                    ELSE [clients[c] EXCEPT
                            !.mongoDBService =
                                NewMongoDBService(c, clients[c].created + 1),
                            !.created = @ + 1]
        IN  /\ clients' = Closure(c, [made EXCEPT
                                        !.mongoDBService.given = settings])
            /\ event' = Handled(c, "INITIALIZE_MONGODB_SERVICE", settings,
                                "undefined",
                                <<Called(made.mongoDBService, "initialize",
                                         settings)>>, <<>>)
    /\ UNCHANGED <<pc, process, config, connectionCount>>
    /\ UNCHANGED visitorVars

\* ACTIVE_CONNECTION_CHANGED: null while mongoDBService is undefined, else
\* what activeConnectionChanged returns.
OnActiveConnectionChanged ==
    /\ Serving
    /\ \E c \in DOMAIN clients : \E params \in ConnectionSettings :
        LET service == clients[c].mongoDBService IN
        IF ~service.defined
        THEN /\ event' = Handled(c, "ACTIVE_CONNECTION_CHANGED", params,
                                 "null", <<>>, <<>>)
             /\ UNCHANGED clients
        ELSE /\ event' = Handled(c, "ACTIVE_CONNECTION_CHANGED", params,
                                 "activeConnectionChanged",
                                 <<Called(service, "activeConnectionChanged",
                                          params)>>, <<>>)
             /\ clients' = Closure(c, [clients[c] EXCEPT
                               !.mongoDBService =
                                   activeConnectionChanged(service, params)])
    /\ UNCHANGED <<pc, process, config, connectionCount>>
    /\ UNCHANGED visitorVars

\* UPDATE_CURRENT_SESSION_FIELDS: nothing while mongoDBService is
\* undefined, else cacheFields(namespace, schemaFields).
OnUpdateCurrentSessionFields ==
    /\ Serving
    /\ \E c \in DOMAIN clients : \E namespace \in Namespaces :
       \E schemaFields \in SchemaFields :
        LET service == clients[c].mongoDBService
            params == [namespace |-> namespace, schemaFields |-> schemaFields]
        IN  IF ~service.defined
            THEN /\ event' = Handled(c, "UPDATE_CURRENT_SESSION_FIELDS",
                                     params, "undefined", <<>>, <<>>)
                 /\ UNCHANGED clients
            ELSE /\ event' = Handled(c, "UPDATE_CURRENT_SESSION_FIELDS",
                                     params, "cacheFields",
                                     <<Called(service, "cacheFields", params)>>,
                                     <<>>)
                 /\ clients' = Closure(c, [clients[c] EXCEPT
                                   !.mongoDBService =
                                       cacheFields(service, namespace,
                                                   schemaFields)])
    /\ UNCHANGED <<pc, process, config, connectionCount>>
    /\ UNCHANGED visitorVars

\* CLEAR_CACHED_COMPLETIONS: nothing while mongoDBService is undefined,
\* else clearCachedCompletions(clear).
OnClearCachedCompletions ==
    /\ Serving
    /\ \E c \in DOMAIN clients : \E clear \in ClearSelectors :
        LET service == clients[c].mongoDBService IN
        IF ~service.defined
        THEN /\ event' = Handled(c, "CLEAR_CACHED_COMPLETIONS", clear,
                                 "undefined", <<>>, <<>>)
             /\ UNCHANGED clients
        ELSE /\ event' = Handled(c, "CLEAR_CACHED_COMPLETIONS", clear,
                                 "clearCachedCompletions",
                                 <<Called(service, "clearCachedCompletions",
                                          clear)>>, <<>>)
             /\ clients' = Closure(c, [clients[c] EXCEPT
                               !.mongoDBService =
                                   clearCachedCompletions(service, clear)])
    /\ UNCHANGED <<pc, process, config, connectionCount>>
    /\ UNCHANGED visitorVars

\* The handlers of a connection of bin/server.js.
Handlers ==
    \/ OnInitialize
    \/ OnInitialized
    \/ OnDidChangeConfiguration
    \/ OnDidChangeContent
    \/ OnCompletion
    \/ OnExecuteCodeFromPlayground
    \/ OnInitializeMongoDBService
    \/ OnActiveConnectionChanged
    \/ OnUpdateCurrentSessionFields
    \/ OnClearCachedCompletions

\* The words of a command line: each option is given or not.
Option(given, words) == IF given THEN words ELSE <<>>

Argv(uri, verbose, file, websocket) ==
    Option(uri, <<Flag("mongodb-uri"), Word(CliUri)>>)
    \o Option(verbose, <<Flag("verbose")>>)
    \o Option(file, <<Flag("config"), Word(ConfigPath)>>)
    \o Option(websocket, <<Flag("websocket")>>)

\* The process has just started, with no option, no environment variable
\* and no file other than the mode.
Started(websocket) ==
    /\ pc = "start"
    /\ process = [argv |-> Argv(FALSE, FALSE, FALSE, websocket),
                  env |-> <<>>, files |-> <<>>]
    /\ config = <<>>
    /\ connectionCount = 0
    /\ clients = <<>>
    /\ event = NoEvent
    /\ _state = <<>>
    /\ held = [result |-> <<>>, shared |-> FALSE]
    /\ _selection = [start |-> [line |-> 0, character |-> 0],
                     end |-> [line |-> 0, character |-> 0]]
    /\ call = [op |-> "constructor", status |-> "returned"]

\* bin/server.js --stdio.
InitStdio == Started(FALSE)

NextStdio == LoadConfiguration \/ StartStdioServer \/ Handlers

SpecStdio == InitStdio /\ [][NextStdio]_vars

\* bin/server.js --websocket.
InitWebSocket == Started(TRUE)

\* The connections are accepted in any order with the messages of the
\* clients that start a service, change a document and ask for completions.
NextWebSocket ==
    \/ LoadConfiguration
    \/ StartWebSocketServer
    \/ Connection
    \/ OnInitialized
    \/ OnDidChangeContent
    \/ OnCompletion

SpecWebSocket == InitWebSocket /\ [][NextWebSocket]_vars

-----------------------------------------------------------------------------
(* Claims about the configuration in effect *)

\* What a configuration file may hold, and the files of the process: none,
\* the configuration file, or one that is not JSON.
FileConfigs ==
    {Restrict([connectionString |-> FileUri, verbose |-> v], S) :
        v \in BOOLEAN, S \in SUBSET {"connectionString", "verbose"}}

FileSystems ==
    {<<>>, (ConfigPath :> [json |-> FALSE, value |-> <<>>])}
    \cup {(ConfigPath :> [json |-> TRUE, value |-> fileConfig]) :
            fileConfig \in FileConfigs}

Environments ==
    {Restrict([MONGODB_URI |-> EnvUri, MONGODB_LSP_CONFIG |-> ConfigPath], S) :
        S \in SUBSET {"MONGODB_URI", "MONGODB_LSP_CONFIG"}}

\* bin/server.js in stdio mode, started with any combination of the
\* options --mongodb-uri, --verbose and --config, of the environment
\* variables and of the configuration file.
InitConfig ==
    /\ pc = "start"
    /\ \E uri \in BOOLEAN, verbose \in BOOLEAN, file \in BOOLEAN :
       \E env \in Environments : \E files \in FileSystems :
            process = [argv |-> Argv(uri, verbose, file, FALSE),
                       env |-> env, files |-> files]
    /\ config = <<>>
    /\ connectionCount = 0
    /\ clients = <<>>
    /\ event = NoEvent
    /\ _state = <<>>
    /\ held = [result |-> <<>>, shared |-> FALSE]
    /\ _selection = [start |-> [line |-> 0, character |-> 0],
                     end |-> [line |-> 0, character |-> 0]]
    /\ call = [op |-> "constructor", status |-> "returned"]

NextConfig ==
    \/ LoadConfiguration
    \/ StartStdioServer
    \/ OnInitialized
    \/ OnDidChangeConfiguration

SpecConfig == InitConfig /\ [][NextConfig]_vars

\* What the configuration file of the process supplies: the content of the
\* file that --config or MONGODB_LSP_CONFIG names, if there is one.
SuppliedByFile ==
    LET found == CONFIG_PATH(parseArgs(process.argv), process.env)
                    \cap DOMAIN process.files
    IN  IF found = {} THEN <<>>
        ELSE process.files[CHOOSE path \in found : TRUE].value

\* What the environment and the command line supply.
SuppliedByEnvironment ==
    IF "MONGODB_URI" \in DOMAIN process.env
    THEN [connectionString |-> process.env["MONGODB_URI"]]
    ELSE <<>>

SuppliedByCommandLine ==
    LET args == parseArgs(process.argv) IN
    Restrict([connectionString |->
                 IF "mongodb-uri" \in DOMAIN args THEN args["mongodb-uri"]
                 ELSE DefaultUri,
              verbose |-> TRUE],
             {k \in {"connectionString"} : "mongodb-uri" \in DOMAIN args}
             \cup {k \in {"verbose"} : "verbose" \in DOMAIN args})

\* The configuration README.md states for the start of the process: the
\* built-in defaults, overridden by the configuration file, overridden by
\* the environment variables, overridden by the command line.
StatedConfig ==
    SuppliedByCommandLine @@ SuppliedByEnvironment @@ SuppliedByFile
        @@ [connectionString |-> DefaultUri, verbose |-> FALSE]

\* C22 as stated: the configuration in effect (connectionString, verbose)
\* is selected by the precedence built-in defaults < configuration file
\* < environment variables < command-line arguments < LSP
\* didChangeConfiguration: for every combination of sources that supply a
\* value, the latest supplying source in this order wins.  The
\* configuration loaded at the start is the stated one, and each
\* didChangeConfiguration puts what it supplies on top of the
\* configuration in effect.
C22_LatestSourceWins ==
    [][/\ (pc = "start" /\ pc' = "loaded") =>
            /\ config'.connectionString = StatedConfig.connectionString
            /\ config'.verbose = StatedConfig.verbose
       /\ (pc' = "stdio" /\ event' # event
             /\ event'.kind = "didChangeConfiguration") =>
            clients'[1].activeConfig =
                event'.params @@ clients[1].activeConfig]_vars

-----------------------------------------------------------------------------
(* Claims about the connections of the WebSocket server *)

-----------------------------------------------------------------------------
(* src/server.ts: one connection, and a MongoDBService made when the       *)
(* module is loaded                                                        *)

\* The module has been loaded: connection, documents and mongoDBService
\* are set, no message has been handled.  (The closure has the fields of
\* a bin/server.js one; clientId and activeConfig are not used.)
InitServerTs ==
    /\ pc = "server.ts"
    /\ process = [argv |-> <<>>, env |-> <<>>, files |-> <<>>]
    /\ config = <<>>
    /\ connectionCount = 0
    /\ clients = <<[connection |-> 1,
                    clientId |-> [type |-> "string", value |-> "server.ts"],
                    documents |-> <<>>,
                    mongoDBService |-> NewMongoDBService(1, 1),
                    hasConfigurationCapability |-> FALSE,
                    activeConfig |-> <<>>, created |-> 1,
                    initialized |-> FALSE]>>
    /\ event = NoEvent
    /\ _state = <<>>
    /\ held = [result |-> <<>>, shared |-> FALSE]
    /\ _selection = [start |-> [line |-> 0, character |-> 0],
                     end |-> [line |-> 0, character |-> 0]]
    /\ call = [op |-> "constructor", status |-> "returned"]

\* documents.onDidChangeContent: the diagnostics of the text are computed
\* and sent for the document's URI.
ServerTs_OnDidChangeContent ==
    /\ pc = "server.ts"
    /\ \E uri \in Uris : \E text \in Texts :
        /\ clients' = Closure(1, [clients[1] EXCEPT
                                    !.documents = (uri :> text) @@ @])
        /\ event' = Handled(1, "didChangeContent", [uri |-> uri, text |-> text],
                            "undefined",
                            <<Called(clients[1].mongoDBService,
                                     "provideDiagnostics", [text |-> text])>>,
                            <<[method |-> "sendDiagnostics", uri |-> uri,
                               diagnosticsOf |-> text]>>)
    /\ UNCHANGED <<pc, process, config, connectionCount>>
    /\ UNCHANGED visitorVars

\* connection.onRequest(INITIALIZE_MONGODB_SERVICE)
ServerTs_OnInitializeMongoDBService ==
    /\ pc = "server.ts"
    /\ \E settings \in ConnectionSettings :
        /\ clients' = Closure(1, [clients[1] EXCEPT
                                    !.mongoDBService.given = settings])
        /\ event' = Handled(1, "INITIALIZE_MONGODB_SERVICE", settings,
                            "undefined",
                            <<Called(clients[1].mongoDBService, "initialize",
                                     settings)>>, <<>>)
    /\ UNCHANGED <<pc, process, config, connectionCount>>
    /\ UNCHANGED visitorVars

\* connection.onRequest(ACTIVE_CONNECTION_CHANGED)
ServerTs_OnActiveConnectionChanged ==
    /\ pc = "server.ts"
    /\ \E params \in ConnectionSettings :
        /\ clients' = Closure(1, [clients[1] EXCEPT
                          !.mongoDBService = activeConnectionChanged(@, params)])
        /\ event' = Handled(1, "ACTIVE_CONNECTION_CHANGED", params,
                            "activeConnectionChanged",
                            <<Called(clients[1].mongoDBService,
                                     "activeConnectionChanged", params)>>,
                            <<>>)
    /\ UNCHANGED <<pc, process, config, connectionCount>>
    /\ UNCHANGED visitorVars

\* connection.onRequest(UPDATE_CURRENT_SESSION_FIELDS)
ServerTs_OnUpdateCurrentSessionFields ==
    /\ pc = "server.ts"
    /\ \E namespace \in Namespaces : \E schemaFields \in SchemaFields :
        LET params == [namespace |-> namespace, schemaFields |-> schemaFields]
        IN  /\ clients' = Closure(1, [clients[1] EXCEPT
                              !.mongoDBService =
                                  cacheFields(@, namespace, schemaFields)])
            /\ event' = Handled(1, "UPDATE_CURRENT_SESSION_FIELDS", params,
                                "cacheFields",
                                <<Called(clients[1].mongoDBService,
                                         "cacheFields", params)>>, <<>>)
    /\ UNCHANGED <<pc, process, config, connectionCount>>
    /\ UNCHANGED visitorVars

\* connection.onRequest(CLEAR_CACHED_COMPLETIONS)
ServerTs_OnClearCachedCompletions ==
    /\ pc = "server.ts"
    /\ \E clear \in ClearSelectors :
        /\ clients' = Closure(1, [clients[1] EXCEPT
                          !.mongoDBService = clearCachedCompletions(@, clear)])
        /\ event' = Handled(1, "CLEAR_CACHED_COMPLETIONS", clear,
                            "clearCachedCompletions",
                            <<Called(clients[1].mongoDBService,
                                     "clearCachedCompletions", clear)>>, <<>>)
    /\ UNCHANGED <<pc, process, config, connectionCount>>
    /\ UNCHANGED visitorVars

\* connection.onCompletion
ServerTs_OnCompletion ==
    /\ pc = "server.ts"
    /\ \E uri \in Uris : \E namespace \in Namespaces :
        LET done == provideCompletionItems(clients[1].mongoDBService, 1,
                                           clients[1].documents, uri, namespace)
        IN  /\ clients' = Closure(1, [clients[1] EXCEPT
                                        !.mongoDBService = done.service])
            /\ event' = Handled(1, "completion", [uri |-> uri],
                                "provideCompletionItems", done.calls, <<>>)
    /\ UNCHANGED <<pc, process, config, connectionCount>>
    /\ UNCHANGED visitorVars

NextServerTs ==
    \/ ServerTs_OnDidChangeContent
    \/ ServerTs_OnInitializeMongoDBService
    \/ ServerTs_OnActiveConnectionChanged
    \/ ServerTs_OnUpdateCurrentSessionFields
    \/ ServerTs_OnClearCachedCompletions
    \/ ServerTs_OnCompletion

SpecServerTs == InitServerTs /\ [][NextServerTs]_vars

-----------------------------------------------------------------------------
(* Claims about the cache of field names *)

\* The cache of field names of the service of src/server.ts.
CachedFields == clients[1].mongoDBService.fields

\* The message just handled invalidates the cached field names: a
\* CLEAR_CACHED_COMPLETIONS with fields set, or a change of the active
\* connection.
Invalidation(e) ==
    \/ e.kind = "CLEAR_CACHED_COMPLETIONS" /\ e.params.fields
    \/ e.kind = "ACTIVE_CONNECTION_CHANGED"

\* The lookup of field names made while the message was handled.
LookupOf(e) == e.calls[2].args

-----------------------------------------------------------------------------
(* Claims about the handlers of bin/server.js *)

\* C26 as stated: every change of a document's content is followed by
\* exactly one computation of the diagnostics of the full current text
\* and then one sendDiagnostics for the same URI, whatever the order of
\* the change and of initialize / initialized: no change is dropped.
C26_EveryChangeIsDiagnosed ==
    event.kind = "didChangeContent" =>
        /\ Len(event.calls) = 1
        /\ event.calls[1].method = "provideDiagnostics"
        /\ event.calls[1].args.text
              = clients[event.client].documents[event.params.uri]
        /\ Len(event.sent) = 1
        /\ event.sent[1].method = "sendDiagnostics"
        /\ event.sent[1].uri = event.params.uri
        /\ event.sent[1].diagnosticsOf = event.params.text

\* C27 as stated: whatever the order of the initialized notification and
\* of INITIALIZE_MONGODB_SERVICE requests, at most one MongoDBService is
\* ever constructed for a connection: once the variable mongoDBService
\* holds an instance, that instance is never replaced.
C27_OneServicePerConnection ==
    [][\A c \in DOMAIN clients :
          /\ clients'[c].created <= 1
          /\ clients[c].mongoDBService.defined =>
                /\ clients'[c].mongoDBService.defined
                /\ clients'[c].mongoDBService.instance
                      = clients[c].mongoDBService.instance]_vars

\* C28 as stated: whatever requests came before (INITIALIZE_MONGODB_SERVICE
\* and ACTIVE_CONNECTION_CHANGED among them), a didChangeConfiguration
\* whose settings carry no connectionString does not change the
\* connection string the service is using: the string the service was
\* last given is the same after the notification as before it.
C28_ConnectionStringUntouched ==
    [][(/\ event' # event
        /\ event'.kind = "didChangeConfiguration"
        /\ "connectionString" \notin DOMAIN event'.params
        /\ clients[event'.client].mongoDBService.defined) =>
            clients'[event'.client].mongoDBService.given.connectionString
                = clients[event'.client].mongoDBService.given.connectionString]_vars

\* The messages C29 speaks of.
GuardedKinds ==
    {"completion", "EXECUTE_CODE_FROM_PLAYGROUND", "ACTIVE_CONNECTION_CHANGED",
     "didChangeContent", "UPDATE_CURRENT_SESSION_FIELDS",
     "CLEAR_CACHED_COMPLETIONS", "didChangeConfiguration"}

\* The variables of the closure that its handlers assign.
HandlerState(client) ==
    [mongoDBService |-> client.mongoDBService,
     activeConfig |-> client.activeConfig,
     hasConfigurationCapability |-> client.hasConfigurationCapability]

\* C29: no handler calls a method of mongoDBService while it is undefined.
\* While it is undefined a completion request returns the empty list,
\* EXECUTE_CODE_FROM_PLAYGROUND and ACTIVE_CONNECTION_CHANGED return null,
\* and a content change, UPDATE_CURRENT_SESSION_FIELDS,
\* CLEAR_CACHED_COMPLETIONS and a configuration change call no method of
\* the service; of these only a configuration change alters the variables
\* of the handlers, and it alters activeConfig only.
C29_NoCallOnUndefinedService ==
    [][(/\ event' # event
        /\ event'.client \in DOMAIN clients
        /\ ~clients[event'.client].mongoDBService.defined) =>
            LET c == event'.client
                kind == event'.kind
            IN  /\ \A k \in DOMAIN event'.calls :
                      /\ clients'[c].mongoDBService.defined
                      /\ event'.calls[k].instance
                            = clients'[c].mongoDBService.instance
                /\ kind \in GuardedKinds =>
                      /\ event'.calls = <<>>
                      /\ event'.sent = <<>>
                      /\ ~clients'[c].mongoDBService.defined
                /\ kind = "completion" => event'.reply = "[]"
                /\ kind \in {"EXECUTE_CODE_FROM_PLAYGROUND",
                             "ACTIVE_CONNECTION_CHANGED"} =>
                      event'.reply = "null"
                /\ kind \in GuardedKinds \ {"didChangeConfiguration"} =>
                      HandlerState(clients'[c]) = HandlerState(clients[c])
                /\ kind = "didChangeConfiguration" =>
                      [HandlerState(clients'[c]) EXCEPT
                          !.activeConfig = clients[c].activeConfig]
                        = HandlerState(clients[c])]_vars

\* A completion request has been answered with the empty list and without
\* a call, by a connection whose service is still undefined.
C29_Witness ==
    /\ pc = "stdio" /\ event.kind = "completion"
    /\ ~clients[event.client].mongoDBService.defined
    /\ event.reply = "[]" /\ event.calls = <<>>

====
